---- MODULE Spec2Model ----
(***************************************************************************)
(* Model of the Type-C port-management subsystem of embedded-services:     *)
(* the UCSI state of the Type-C Service (type-c-service/src/service/       *)
(* ucsi.rs), the Service's port-status cache and external command path     *)
(* (type-c-service/src/service/mod.rs) and the Controller Wrapper's power  *)
(* command path (type-c-service/src/wrapper.rs).                           *)
(***************************************************************************)
EXTENDS Integers, Sequences, FiniteSets, TLC

VARIABLES
    ucsi,          \* ucsi::State of the Service (ucsi.rs:17-26)
    config,        \* Service config: is ucsi_port_capabilities Some (ucsi.rs:72)
    response,      \* the UcsiResponse returned by the last process_ucsi_command
    broadcast,     \* Option: the UcsiCci message broadcast by the last operation
    last,          \* what the last operation was and how it ran
    ack_parity,    \* flips at every processed connector-change acknowledgement
    port_status,   \* the Service's cache, State::port_status (mod.rs:43)
    processed,     \* per port, the status of the event process_event handled last
    svc_event,     \* Option: the Event wait_next returned, not yet processed
    svc_done,      \* Option: the Event process_event handled last
    svc_result,    \* the Result of the last process_event
    debug_msg,     \* Option: the DebugAccessoryMessage the last process_event sent
    ext_channel,   \* Option: the external command waiting in the deferred channel
    ext_client,    \* Option: the command whose response the requester waits for
    ext_responses, \* the responses delivered for the current request
    power_client,  \* per device, Option: the request the power policy waits on
    power_request, \* per device, Option: the request in the device's request slot
    power_response,\* per device, the responses sent for the current request
    power_command, \* Option: what wait_power_command returned, not yet processed
    power_driver,  \* per device, the result of enable_sink_path for the current request
    sink_path,     \* per port, whether the controller's sink path is enabled
    unconstrained_power, \* per port, the unconstrained flag the port's controller holds
    sink_unconstrained,  \* per port, whether the cached status shows an available sink
                         \* contract with unconstrained power
    policy_event,  \* the power-policy event processed last, and how it ended
    state_lock,    \* who holds the Service's state mutex: "free" or "service"
    svc_pc,        \* where the Service's task is, between suspension points
    reader_pc,     \* another task calling get_cached_port_status: "idle" or "waiting"
    command_channel,  \* Device::command, a channel of capacity 1
    response_channel, \* Device::response, a channel of capacity 1
    caller_pc,     \* the caller of send_port_command: where it is, and its command
    caller_got,    \* Option: what the caller's last send_port_command returned
    wrapper_held,  \* Option: the command the wrapper took and has not answered yet
    commands_sent, \* the number of commands issued so far
    sink_ready_deadline, \* per port, Option: PortState::sink_ready_deadline
    clock,         \* Instant::now()
    wait_timers,   \* Option: per port, the deadline the running wait_sink_ready_timeout
                   \* read at its first poll; None while it is not running
    deadline_last,  \* the last step of the deadline logic and what it was given
    buffer_status, \* per buffer, Buffer::status (buffer.rs:32)
    guards,        \* per guard slot, Option: the live Access or AccessMut guard
    buffer_last,    \* the last borrow or drop and whether it panicked
    debouncer,     \* the Debouncer (debounce.rs:18-24)
    previous_pressed, \* Option: previous_pressed of the running debounce call
    debounce_last,  \* the last step of debounce: the sample and what was returned
    stk,           \* PowerGuard::stk, the stack of executed operations
    guard_last,     \* the last PowerGuard call, its result and the undo calls it made
    power_state,   \* SocManager::power_state, the published power state
    soc_lock,      \* the holder of SocManager::soc's mutex, 0 when it is free
    soc_call,      \* per caller, where its set_power_state call is and what it read
    soc_last,      \* the last step of a set_power_state call
    power_devices, \* per local port, the state kind of its power-policy device
    event_pc,      \* the local port process_event's loop handles next, N after the last
    port_last,     \* the inputs of the loop body process_event ran last
    event_seen,     \* the event process_ucsi_event handled last, {} after a command
    active_events, \* per local port, ControllerWrapper::active_events
    port_events,   \* Option: the flags in the context's port_events signal
    pd_pc,         \* where the wrapper's task is: in select3, or in process_event's loop
    pd_last,        \* the step of the wrapper or of the signal taken last
    alarm_timer,   \* TimerState of the Timer
    timer_signal,  \* Option: the Option<u32> signalled on Timer::timer_signal and not taken
    datetime,      \* the clock's current datetime, in seconds
    wake_pc,       \* where the task of wait_until_wake is
    alarm_op       \* the step of the timer taken last

ucsi_vars == <<ucsi, config, response, broadcast, last, ack_parity>>
service_vars == <<port_status, processed, svc_event, svc_done, svc_result, debug_msg,
                  ext_channel, ext_client, ext_responses>>
wrapper_vars == <<power_client, power_request, power_response, power_command,
                  power_driver, sink_path>>
policy_vars == <<unconstrained_power, sink_unconstrained, policy_event>>
lock_vars == <<state_lock, svc_pc, reader_pc>>
channel_vars == <<command_channel, response_channel, caller_pc, caller_got,
                  wrapper_held, commands_sent>>
deadline_vars == <<sink_ready_deadline, clock, wait_timers, deadline_last>>
buffer_vars == <<buffer_status, guards, buffer_last>>
debounce_vars == <<debouncer, previous_pressed, debounce_last>>
guard_vars == <<stk, guard_last>>
soc_vars == <<power_state, soc_lock, soc_call, soc_last>>
plug_vars == <<power_devices, event_pc, port_last>>
event_vars == <<event_seen>>
pd_vars == <<active_events, port_events, pd_pc, pd_last>>
timer_vars == <<alarm_timer, timer_signal, datetime, wake_pc, alarm_op>>
rest_vars == <<policy_vars, lock_vars, channel_vars, deadline_vars,
              buffer_vars,
              debounce_vars,
              guard_vars,
              soc_vars,
              plug_vars,
              event_vars,
              pd_vars,
              timer_vars>>

----------------------------------------------------------------------------
(* Bounds *)

\* Number of global ports the model drives.
NumPorts == 2

Ports == 0 .. (NumPorts - 1)

\* Option<T> is a sequence of length at most one.
None == <<>>
Some(x) == <<x>>

\* "no item" of Iterator::next, as a port number
NoPort == -1

Min(S) == CHOOSE x \in S : \A y \in S : x <= y

----------------------------------------------------------------------------
(* PortPending / PortPendingIter (embedded_services::type_c::event).       *)
(* A bitmap of global ports and a by-value iterator over a copy of it.     *)

\* Width of the bitmap: the iterator's index stops here.
PortPendingLen == NumPorts

PortPending_none == {}

is_none(pending) == pending = {}

pend_port(pending, port) == pending \cup {port}

clear_port(pending, port) == pending \ {port}

\* IntoIterator for PortPending: the iterator owns a copy of the flags.
into_iter(pending) == [flags |-> pending, index |-> 0]

\* Iterator::next: the lowest set port at or after index; the index moves past it.
iter_next(iter) ==
    LET rest == {p \in iter.flags : p >= iter.index}
    IN  IF rest = {}
        THEN [item |-> NoPort, iter |-> [iter EXCEPT !.index = PortPendingLen]]
        ELSE [item |-> Min(rest), iter |-> [iter EXCEPT !.index = Min(rest) + 1]]

\* Option<PortPendingIter>::and_then(|iter| iter.next()) on a copy
peek(opt_iter) == IF opt_iter = None THEN NoPort ELSE iter_next(opt_iter[1]).item

----------------------------------------------------------------------------
(* NotificationEnable, ConnectorStatusChange, PortStatusChanged            *)

\* NotificationEnable::default(): nothing enabled
NotificationEnable_default == {}

\* The masks a SetNotificationEnable of the model carries.
MaskChoices ==
    { {},
      {"cmd_complete"},
      {"connect_change"},
      {"cmd_complete", "connect_change", "negotiated_power_level_change"} }

\* The PortStatusChanged events the model delivers (sets of event bits).
EventChoices ==
    { {"plug_inserted_or_removed"},
      {"new_power_contract_as_consumer"},
      {"sink_ready"} }

\* ucsi.rs:247-263: translation of a PortStatusChanged to ConnectorStatusChange
to_connector_status_change(port_event) ==
    LET contract == ("new_power_contract_as_consumer" \in port_event)
                    \/ ("new_power_contract_as_provider" \in port_event)
    IN  (IF "plug_inserted_or_removed" \in port_event THEN {"connect_change"} ELSE {})
        \cup (IF "power_swap_completed" \in port_event
              THEN {"power_direction_changed"} ELSE {})
        \cup (IF "pd_hard_reset" \in port_event THEN {"pd_reset_complete"} ELSE {})
        \cup (IF ("data_swap_completed" \in port_event) \/ ("alt_mode_entered" \in port_event)
              THEN {"connector_partner_changed"} ELSE {})
        \cup (IF contract
              THEN {"negotiated_power_level_change", "power_op_mode_change",
                    "external_supply_change", "power_direction_changed",
                    "battery_charging_status_change"}
              ELSE {})

\* ConnectorStatusChange::filter_enabled: the categories the mask enables
filter_enabled(ucsi_event, enabled) == ucsi_event \cap enabled

----------------------------------------------------------------------------
(* Cci *)

\* Cci::default()
Cci_default ==
    [busy |-> FALSE, error |-> FALSE, cmd_complete |-> FALSE, ack_command |-> FALSE,
     reset_complete |-> FALSE, connector_change |-> 0]

\* Cci::new_error()
Cci_new_error == [Cci_default EXCEPT !.error = TRUE]

\* Cci::new_reset_complete()
Cci_new_reset_complete == [Cci_default EXCEPT !.reset_complete = TRUE]

\* Response data: Result<Option<ResponseData>, PdError>
ErrData == {"Err_Failed", "Err_InvalidMode", "Err_Timeout"}
is_err(data) == data \in ErrData

\* What the controller answers to a delegated LPM command
LpmResults == {"Ok_Some_Lpm", "Err_Failed"}

----------------------------------------------------------------------------
(* UCSI commands *)

NoMask == {}

PpmCmd(op) == [type |-> "Ppm", op |-> op, mask |-> NoMask, ack_cc |-> FALSE, ack_ci |-> FALSE]
SetNotificationEnable(mask) == [PpmCmd("SetNotificationEnable") EXCEPT !.mask = mask]
AckCcCi(cc, ci) == [PpmCmd("AckCcCi") EXCEPT !.ack_cc = cc, !.ack_ci = ci]
LpmCmd(op) == [type |-> "Lpm", op |-> op, mask |-> NoMask, ack_cc |-> FALSE, ack_ci |-> FALSE]

NoCommand == PpmCmd("none")

PpmCommands ==
    {PpmCmd("PpmReset"), PpmCmd("GetCapability")}
    \cup {SetNotificationEnable(m) : m \in MaskChoices}
    \cup {AckCcCi(TRUE, FALSE), AckCcCi(FALSE, TRUE), AckCcCi(TRUE, TRUE)}

LpmCommands == {LpmCmd("GetConnectorCapability"), LpmCmd("GetConnectorStatus")}

UcsiCommands == PpmCommands \cup LpmCommands

\* A command together with the controller's answer, should it be delegated
UcsiCalls ==
    {<<c, "Ok_None">> : c \in PpmCommands} \cup (LpmCommands \X LpmResults)

----------------------------------------------------------------------------
(* PPM state machine (embedded_usb_pd::ucsi::ppm::state_machine), as the   *)
(* Service drives it: the inputs are Command and CommandComplete only.     *)
(* Idle carries whether notifications were enabled:                        *)
(*   Idle(false), Idle(true), ProcessingCommand, WaitForCommandCompleteAck, *)
(*   Busy (never entered: the Service feeds no busy input).                *)

PpmInput_Command(command) == [kind |-> "Command", command |-> command]
PpmInput_CommandComplete == [kind |-> "CommandComplete", command |-> NoCommand]

PpmOutput(kind, command) == Some([kind |-> kind, command |-> command])

Transition(state, output) == [ok |-> TRUE, state |-> state, output |-> output]

\* Err(InvalidTransition): the machine keeps its state
InvalidTransition(state) == [ok |-> FALSE, state |-> state, output |-> None]

is_reset(input) == input.kind = "Command" /\ input.command.op = "PpmReset"
is_ack(input) == input.kind = "Command" /\ input.command.op = "AckCcCi"

\* StateMachine::consume
consume(state, input) ==
    CASE is_reset(input) /\ state \in {"Idle_false", "Idle_true", "WaitForCommandCompleteAck"} ->
            Transition("Idle_false", PpmOutput("ResetComplete", NoCommand))
      [] state = "Idle_false" /\ input.kind = "Command"
            /\ input.command.op = "SetNotificationEnable" ->
            Transition("ProcessingCommand", PpmOutput("ExecuteCommand", input.command))
      [] state = "Idle_false" /\ input.kind = "Command"
            /\ input.command.op \notin {"SetNotificationEnable", "PpmReset"} ->
            \* with notifications disabled every other command is ignored
            Transition("Idle_false", None)
      [] state = "Idle_true" /\ is_ack(input) ->
            Transition("Idle_true", PpmOutput("AckComplete", input.command))
      [] state = "Idle_true" /\ input.kind = "Command" /\ ~is_ack(input) /\ ~is_reset(input) ->
            Transition("ProcessingCommand", PpmOutput("ExecuteCommand", input.command))
      [] state = "ProcessingCommand" /\ input.kind = "CommandComplete" ->
            Transition("WaitForCommandCompleteAck", PpmOutput("OpmNotifyCommandComplete", NoCommand))
      [] state = "WaitForCommandCompleteAck" /\ is_ack(input) /\ input.command.ack_cc ->
            Transition("Idle_true", PpmOutput("AckComplete", input.command))
      [] state = "Busy" /\ input.kind = "Command" /\ ~is_reset(input) ->
            Transition("Busy", PpmOutput("OpmNotifyBusy", NoCommand))
      [] OTHER -> InvalidTransition(state)

----------------------------------------------------------------------------
(* Service: UCSI command handlers, ucsi.rs *)

\* ucsi::State::default()
State_default ==
    [ppm_state_machine |-> "Idle_false",
     notifications_enabled |-> NotificationEnable_default,
     pending_ports |-> PortPending_none,
     pending_ports_iter |-> None]

\* process_ppm_reset that leaves the enabled notifications as they were
process_ppm_reset_keeps_mask(state) == state

\* ucsi.rs:30-33
process_ppm_reset(state) ==
    [state EXCEPT !.notifications_enabled = NotificationEnable_default]

\* ucsi.rs:36-39
process_set_notification_enable(state, enable) ==
    [state EXCEPT !.notifications_enabled = enable]

\* process_ppm_command whose GetCapability also puts the mask back to its default
process_ppm_command_capability_resets(state, command) ==
    CASE command.op = "SetNotificationEnable" ->
            [state |-> process_set_notification_enable(state, command.mask), data |-> "Ok_None"]
      [] command.op = "GetCapability" ->
            [state |-> process_ppm_reset(state), data |-> "Ok_Some_Ppm"]
      [] OTHER -> [state |-> state, data |-> "Ok_None"]

\* ucsi.rs:49-63: the state after the command and the data it returns
process_ppm_command(state, command) ==
    CASE command.op = "SetNotificationEnable" ->
            [state |-> process_set_notification_enable(state, command.mask), data |-> "Ok_None"]
      [] command.op = "GetCapability" -> [state |-> state, data |-> "Ok_Some_Ppm"]
      [] OTHER -> [state |-> state, data |-> "Ok_None"]

\* ucsi.rs:65-80: lpm_result is what the controller answers when the command is delegated
process_lpm_command(command, port_capabilities, lpm_result) ==
    IF command.op = "GetConnectorCapability"
    THEN IF port_capabilities THEN "Ok_Some_Lpm" ELSE lpm_result
    ELSE lpm_result

\* ucsi.rs:83-90
set_cci_connector_change(state, cci) ==
    LET current_port == peek(state.pending_ports_iter)
    IN  IF current_port # NoPort
        THEN [cci EXCEPT !.connector_change = current_port + 1]
        ELSE [cci EXCEPT !.connector_change = 0]

UcsiCci(port, notify_opm) == Some([port |-> port, notify_opm |-> notify_opm])

\* ucsi.rs:93-106: the state afterwards and the message broadcast (if any)
start_connector_changed_notify(state, notify_opm) ==
    LET iter == into_iter(state.pending_ports)
        taken == [state EXCEPT !.pending_ports = PortPending_none,
                               !.pending_ports_iter = Some(iter)]
        port_id == iter_next(iter).item
    IN  [state |-> taken,
         broadcast |-> IF port_id # NoPort THEN UcsiCci(port_id, notify_opm) ELSE None]

\* ack_connector_change that ends the round robin when the pass is exhausted, without
\* looking at the ports that became pending meanwhile
ack_connector_change_no_restart(state, cci) ==
    LET stepped == IF state.pending_ports_iter = None
                   THEN [item |-> NoPort, iter |-> None]
                   ELSE LET n == iter_next(state.pending_ports_iter[1])
                        IN  [item |-> n.item, iter |-> Some(n.iter)]
        current_port == stepped.item
        cleared == [state EXCEPT !.pending_ports_iter = stepped.iter,
                                 !.pending_ports = clear_port(@, current_port)]
        next_port == peek(cleared.pending_ports_iter)
        after ==
            IF current_port # NoPort /\ next_port # NoPort
            THEN [state |-> cleared, broadcast |-> UcsiCci(next_port, FALSE)]
            ELSE [state |-> [cleared EXCEPT !.pending_ports_iter = None], broadcast |-> None]
    IN  [state |-> after.state,
         cci |-> set_cci_connector_change(after.state, cci),
         broadcast |-> after.broadcast]

\* ucsi.rs:109-139: the state afterwards, the CCI and the message broadcast (if any)
ack_connector_change(state, cci) ==
    LET stepped == IF state.pending_ports_iter = None
                   THEN [item |-> NoPort, iter |-> None]
                   ELSE LET n == iter_next(state.pending_ports_iter[1])
                        IN  [item |-> n.item, iter |-> Some(n.iter)]
        current_port == stepped.item
        cleared == [state EXCEPT !.pending_ports_iter = stepped.iter,
                                 !.pending_ports = clear_port(@, current_port)]
        next_port == peek(cleared.pending_ports_iter)
        after ==
            IF current_port # NoPort
            THEN IF next_port # NoPort
                 THEN [state |-> cleared, broadcast |-> UcsiCci(next_port, FALSE)]
                 ELSE IF ~is_none(cleared.pending_ports)
                      THEN start_connector_changed_notify(cleared, FALSE)
                      ELSE [state |-> [cleared EXCEPT !.pending_ports_iter = None],
                            broadcast |-> None]
            ELSE [state |-> [state EXCEPT !.pending_ports_iter = None], broadcast |-> None]
    IN  [state |-> after.state,
         cci |-> set_cci_connector_change(after.state, cci),
         broadcast |-> after.broadcast]

\* external::UcsiResponse
UcsiResponse(notify_opm, cci, data) == [notify_opm |-> notify_opm, cci |-> cci, data |-> data]

\* ucsi.rs:144-149: the locals of process_ucsi_command before its loop
call_begin(state, command) ==
    [state |-> state,
     next_input |-> Some(PpmInput_Command(command)),
     response |-> UcsiResponse(FALSE, Cci_default, "Ok_None"),
     broadcast |-> None,
     fed |-> <<>>,             \* inputs fed to the machine, in order
     outputs |-> <<>>,         \* what the machine answered, in order
     handlers |-> 0,           \* command handlers run
     outcome |-> "running"]

\* ucsi.rs:179-192: run the handler of an ExecuteCommand output
execute_command(call, command, port_capabilities, lpm_result) ==
    IF command.type = "Ppm"
    THEN LET r == process_ppm_command(call.state, command)
         IN  [call EXCEPT !.state = r.state, !.response.data = r.data,
                          !.handlers = @ + 1]
    ELSE [call EXCEPT !.response.data = process_lpm_command(command, port_capabilities, lpm_result),
                      !.handlers = @ + 1]

\* no input queued after the handler
queue_next_input_none == None

\* ucsi.rs:178: the input queued after a handler ran
queue_next_input == Some(PpmInput_CommandComplete)

\* on_command_complete that leaves the error bit alone
on_command_complete_no_error(call) ==
    LET st == call.state
        cci == [call.response.cci EXCEPT !.cmd_complete = TRUE]
    IN  [call EXCEPT
            !.response = UcsiResponse("cmd_complete" \in st.notifications_enabled,
                                      set_cci_connector_change(st, cci),
                                      call.response.data),
            !.outcome = "OpmNotifyCommandComplete"]

\* on_command_complete that notifies as the busy path does
on_command_complete_any_enabled(call) ==
    LET st == call.state
        cci == [call.response.cci EXCEPT !.cmd_complete = TRUE,
                                         !.error = is_err(call.response.data)]
    IN  [call EXCEPT
            !.response = UcsiResponse(st.notifications_enabled # {},
                                      set_cci_connector_change(st, cci),
                                      call.response.data),
            !.outcome = "OpmNotifyCommandComplete"]

\* ucsi.rs:196-202
on_command_complete(call) ==
    LET st == call.state
        cci == [call.response.cci EXCEPT !.cmd_complete = TRUE,
                                         !.error = is_err(call.response.data)]
    IN  [call EXCEPT
            !.response = UcsiResponse("cmd_complete" \in st.notifications_enabled,
                                      set_cci_connector_change(st, cci),
                                      call.response.data),
            !.outcome = "OpmNotifyCommandComplete"]

\* ucsi.rs:203-214
\* The AckComplete arm that reports ack_command whatever the acknowledgement asked
on_ack_complete_always_ack(call, ack) ==
    LET st == call.state
        cci == [call.response.cci EXCEPT !.ack_command = TRUE]
        acked == IF ack.ack_ci THEN ack_connector_change(st, cci)
                 ELSE [state |-> st, cci |-> cci, broadcast |-> None]
    IN  [call EXCEPT
            !.state = acked.state,
            !.response = UcsiResponse("cmd_complete" \in st.notifications_enabled,
                                      acked.cci, call.response.data),
            !.broadcast = acked.broadcast,
            !.outcome = "AckComplete"]

\* ucsi.rs:203-214
on_ack_complete(call, ack) ==
    LET st == call.state
        cci == IF ack.ack_cc THEN [call.response.cci EXCEPT !.ack_command = TRUE]
               ELSE call.response.cci
        acked == IF ack.ack_ci THEN ack_connector_change(st, cci)
                 ELSE [state |-> st, cci |-> cci, broadcast |-> None]
    IN  [call EXCEPT
            !.state = acked.state,
            !.response = UcsiResponse("cmd_complete" \in st.notifications_enabled,
                                      acked.cci, call.response.data),
            !.broadcast = acked.broadcast,
            !.outcome = "AckComplete"]

\* ucsi.rs:215-224
on_reset_complete(call) ==
    LET st == process_ppm_reset(call.state)
    IN  [call EXCEPT
            !.state = st,
            !.response = UcsiResponse(FALSE, set_cci_connector_change(st, Cci_new_reset_complete),
                                      call.response.data),
            !.outcome = "ResetComplete"]

\* ucsi.rs:225-231
on_busy(call) ==
    LET st == call.state
    IN  [call EXCEPT
            !.response = UcsiResponse(st.notifications_enabled # {},
                                      set_cci_connector_change(st,
                                          [call.response.cci EXCEPT !.busy = TRUE]),
                                      call.response.data),
            !.outcome = "OpmNotifyBusy"]

\* ucsi.rs:233-240
on_no_output(call) ==
    [call EXCEPT
        !.response = UcsiResponse(FALSE, set_cci_connector_change(call.state, Cci_default),
                                  "Ok_None"),
        !.outcome = "None"]

\* on_invalid_transition that also resets the notification state
on_invalid_transition_resets(call) ==
    [call EXCEPT !.state = process_ppm_reset(call.state),
                 !.response = UcsiResponse(TRUE, Cci_new_error, "Err_Failed"),
                 !.outcome = "InvalidTransition"]

\* ucsi.rs:165-172
on_invalid_transition(call) ==
    [call EXCEPT !.response = UcsiResponse(TRUE, Cci_new_error, "Err_Failed"),
                 !.outcome = "InvalidTransition"]

\* ucsi.rs:155-162
on_unexpected_end(call) ==
    [call EXCEPT !.response = UcsiResponse(TRUE, Cci_new_error, "Err_InvalidMode"),
                 !.outcome = "UnexpectedEnd"]

output_kind(output) ==
    IF ~output.ok THEN "InvalidTransition"
    ELSE IF output.output = None THEN "None" ELSE output.output[1].kind

\* ucsi.rs:154-242: the loop of process_ucsi_command
RECURSIVE ucsi_loop(_, _, _)
ucsi_loop(call, port_capabilities, lpm_result) ==
    IF call.next_input = None
    THEN on_unexpected_end(call)
    ELSE
        LET input == call.next_input[1]
            output == consume(call.state.ppm_state_machine, input)
            taken == [call EXCEPT !.next_input = None,
                                  !.fed = Append(@, input.kind),
                                  !.outputs = Append(@, output_kind(output)),
                                  !.state.ppm_state_machine = output.state]
        IN  IF ~output.ok
            THEN on_invalid_transition(taken)
            ELSE IF output.output = None
            THEN on_no_output(taken)
            ELSE LET ppm_output == output.output[1]
                 IN  CASE ppm_output.kind = "ExecuteCommand" ->
                            ucsi_loop(
                                [execute_command(taken, ppm_output.command,
                                                 port_capabilities, lpm_result)
                                    EXCEPT !.next_input = queue_next_input],
                                port_capabilities, lpm_result)
                       [] ppm_output.kind = "OpmNotifyCommandComplete" ->
                            on_command_complete(taken)
                       [] ppm_output.kind = "AckComplete" ->
                            on_ack_complete(taken, ppm_output.command)
                       [] ppm_output.kind = "ResetComplete" -> on_reset_complete(taken)
                       [] ppm_output.kind = "OpmNotifyBusy" -> on_busy(taken)

\* ucsi.rs:142-243
process_ucsi_command(state, command, port_capabilities, lpm_result) ==
    ucsi_loop(call_begin(state, command), port_capabilities, lpm_result)

\* process_ucsi_event that queues the port and starts no round robin
process_ucsi_event_no_start(state, port_id, port_event) ==
    LET ucsi_event == to_connector_status_change(port_event)
    IN  [state |-> IF ~is_none(filter_enabled(ucsi_event, state.notifications_enabled))
                   THEN [state EXCEPT !.pending_ports = pend_port(@, port_id)]
                   ELSE state,
         broadcast |-> None]

\* process_ucsi_event that queues the port whatever the notification mask is
process_ucsi_event_unmasked(state, port_id, port_event) ==
    LET queued == [state EXCEPT !.pending_ports = pend_port(@, port_id)]
    IN  IF queued.pending_ports_iter = None /\ ~is_none(queued.pending_ports)
        THEN start_connector_changed_notify(queued,
                 "connect_change" \in queued.notifications_enabled)
        ELSE [state |-> queued, broadcast |-> None]

\* process_ucsi_event that starts a round robin whenever a port is pending, also
\* while one is active
process_ucsi_event_restarts(state, port_id, port_event) ==
    LET ucsi_event == to_connector_status_change(port_event)
        queued == IF ~is_none(filter_enabled(ucsi_event, state.notifications_enabled))
                  THEN [state EXCEPT !.pending_ports = pend_port(@, port_id)]
                  ELSE state
    IN  IF ~is_none(queued.pending_ports)
        THEN start_connector_changed_notify(queued,
                 "connect_change" \in queued.notifications_enabled)
        ELSE [state |-> queued, broadcast |-> None]

\* ucsi.rs:245-279: the state afterwards and the message broadcast (if any)
process_ucsi_event(state, port_id, port_event) ==
    LET ucsi_event == to_connector_status_change(port_event)
        queued == IF ~is_none(filter_enabled(ucsi_event, state.notifications_enabled))
                  THEN [state EXCEPT !.pending_ports = pend_port(@, port_id)]
                  ELSE state
    IN  IF queued.pending_ports_iter = None /\ ~is_none(queued.pending_ports)
        THEN start_connector_changed_notify(queued,
                 "connect_change" \in queued.notifications_enabled)
        ELSE [state |-> queued, broadcast |-> None]

----------------------------------------------------------------------------
(* Actions of the Service's UCSI state *)

InitUcsi ==
    /\ ucsi = State_default
    /\ config \in BOOLEAN
    /\ response = UcsiResponse(FALSE, Cci_default, "Ok_None")
    /\ broadcast = None
    /\ last = [op |-> "init", cmd_op |-> "none", ack_cc |-> FALSE, ack_ci |-> FALSE,
               outcome |-> "none", fed |-> <<>>, outputs |-> <<>>, handlers |-> 0,
               had_cursor |-> FALSE, port |-> NoPort, phase |-> "initial",
               mask |-> NoMask]
    /\ ack_parity = 0

\* Where the host is: "enabled" once a SetNotificationEnable was executed, "reset"
\* once a PPM reset followed it, until the next SetNotificationEnable is executed
phase_after(phase, op, outcome) ==
    CASE outcome = "OpmNotifyCommandComplete" /\ op = "SetNotificationEnable" -> "enabled"
      [] outcome = "ResetComplete" /\ phase # "initial" -> "reset"
      [] OTHER -> phase

\* Service::process_ucsi_command for the command c[1]; c[2] is the controller's answer
UcsiCall(c) ==
    \E call \in {process_ucsi_command(ucsi, c[1], config, c[2])} :
        /\ ucsi' = call.state
        /\ response' = call.response
        /\ broadcast' = call.broadcast
        /\ last' = [op |-> "command", cmd_op |-> c[1].op,
                    ack_cc |-> c[1].ack_cc, ack_ci |-> c[1].ack_ci,
                    outcome |-> call.outcome,
                    fed |-> call.fed, outputs |-> call.outputs,
                    handlers |-> call.handlers,
                    had_cursor |-> ucsi.pending_ports_iter # None,
                    port |-> NoPort, mask |-> c[1].mask,
                    phase |-> phase_after(last.phase, c[1].op, call.outcome)]
        /\ ack_parity' = IF call.outcome = "AckComplete" /\ c[1].ack_ci
                         THEN 1 - ack_parity ELSE ack_parity
        /\ UNCHANGED config

\* Service::process_ucsi_command, called for an external Ucsi command
UcsiCommand ==
    \E c \in UcsiCalls : UcsiCall(c) /\ UNCHANGED service_vars /\ UNCHANGED <<wrapper_vars, rest_vars>>

\* Service::process_ucsi_event for the event port_event of port port_id
UcsiEventOf(port_id, port_event) ==
    \E r \in {process_ucsi_event(ucsi, port_id, port_event)} :
        /\ ucsi' = r.state
        /\ broadcast' = r.broadcast
        /\ last' = [op |-> "event", cmd_op |-> "none", ack_cc |-> FALSE, ack_ci |-> FALSE,
                    outcome |-> "none", fed |-> <<>>, outputs |-> <<>>, handlers |-> 0,
                    had_cursor |-> ucsi.pending_ports_iter # None,
                    port |-> port_id, phase |-> last.phase, mask |-> NoMask]
        /\ UNCHANGED <<config, response, ack_parity>>

\* Service::process_ucsi_event, called for a PortStatusChanged event
UcsiEvent ==
    \E port_id \in Ports, port_event \in EventChoices :
        /\ UcsiEventOf(port_id, port_event)
        /\ UNCHANGED service_vars
        /\ UNCHANGED <<wrapper_vars, rest_vars>>

----------------------------------------------------------------------------
(* Service: port-status cache and event loop, service/mod.rs *)

MAX_SUPPORTED_PORTS == 4

\* PortStatus (controller.rs:30-37); the contract plays no part in the cache logic
PortStatus(connection_present, debug_connection) ==
    [connection_present |-> connection_present, debug_connection |-> debug_connection]

\* PortStatus::default()
PortStatus_default == PortStatus(FALSE, FALSE)

is_connected(status) == status.connection_present
is_debug_accessory(status) == status.debug_connection

\* The statuses the model's events carry
StatusChoices == {PortStatus_default, PortStatus(TRUE, FALSE), PortStatus(TRUE, TRUE)}

\* The global ports the model's events name: the first, the last and one past the cache
EventPorts == {0, MAX_SUPPORTED_PORTS - 1, MAX_SUPPORTED_PORTS}

CachedPorts == 0 .. (MAX_SUPPORTED_PORTS - 1)

\* mod.rs:111-118
get_cached_port_status(cache, port_id) ==
    IF port_id >= MAX_SUPPORTED_PORTS
    THEN [ok |-> FALSE, status |-> PortStatus_default]
    ELSE [ok |-> TRUE, status |-> cache[port_id]]

\* set_cached_port_status that writes only on a connection change
set_cached_port_status_on_change(cache, port_id, status) ==
    IF port_id >= MAX_SUPPORTED_PORTS
    THEN [ok |-> FALSE, cache |-> cache]
    ELSE [ok |-> TRUE,
          cache |-> IF is_connected(status) # is_connected(cache[port_id])
                    THEN [cache EXCEPT ![port_id] = status] ELSE cache]

\* mod.rs:121-129
set_cached_port_status(cache, port_id, status) ==
    IF port_id >= MAX_SUPPORTED_PORTS
    THEN [ok |-> FALSE, cache |-> cache]
    ELSE [ok |-> TRUE, cache |-> [cache EXCEPT ![port_id] = status]]

\* process_port_event that looks for a debug accessory in the new status only
process_port_event_new_status_only(cache, port_id, status) ==
    LET old == get_cached_port_status(cache, port_id)
        connection_changed == is_connected(status) # is_connected(old.status)
        msg == IF connection_changed /\ is_debug_accessory(status)
               THEN Some([port |-> port_id, connected |-> is_connected(status)])
               ELSE None
        set == set_cached_port_status(cache, port_id, status)
    IN  IF ~old.ok
        THEN [result |-> "Err_InvalidPort", cache |-> cache, msg |-> None]
        ELSE [result |-> IF set.ok THEN "Ok" ELSE "Err_InvalidPort",
              cache |-> set.cache, msg |-> msg]

\* mod.rs:132-166: the result, the cache afterwards and the message sent (if any)
process_port_event(cache, port_id, status) ==
    LET old == get_cached_port_status(cache, port_id)
        connection_changed == is_connected(status) # is_connected(old.status)
        msg == IF connection_changed
                  /\ (is_debug_accessory(status) \/ is_debug_accessory(old.status))
               THEN Some([port |-> port_id, connected |-> is_connected(status)])
               ELSE None
        set == set_cached_port_status(cache, port_id, status)
    IN  IF ~old.ok
        THEN [result |-> "Err_InvalidPort", cache |-> cache, msg |-> None]
        ELSE [result |-> IF set.ok THEN "Ok" ELSE "Err_InvalidPort",
              cache |-> set.cache, msg |-> msg]

\* external::Command: Controller, Port or Ucsi
ExternalCommand(kind, command) == [kind |-> kind, ucsi |-> command]

\* The UCSI commands the model sends over the external channel
ExternalUcsiCommands ==
    {PpmCmd("PpmReset"), SetNotificationEnable({"cmd_complete", "connect_change"})}

ExternalCommands ==
    {ExternalCommand("Controller", NoCommand), ExternalCommand("Port", NoCommand)}
    \cup {ExternalCommand("Ucsi", c) : c \in ExternalUcsiCommands}

\* What a controller or port sub-handler gets back from the controller context
HandlerResults == {"Ok", "Err_Timeout"}

\* Service events (mod.rs:82-91)
Event(kind, port, status, command) ==
    [kind |-> kind, port |-> port, status |-> status, command |-> command]

NoExternalCommand == ExternalCommand("none", NoCommand)

\* external::Response: of the command's kind, carrying the sub-handler's result
ExternalResponse(kind, result, ucsi_response) ==
    [kind |-> kind, result |-> result, ucsi |-> ucsi_response]

NoUcsiResponse == UcsiResponse(FALSE, Cci_default, "Ok_None")

InitService ==
    /\ port_status = [p \in CachedPorts |-> PortStatus_default]
    /\ processed = [p \in CachedPorts |-> PortStatus_default]
    /\ svc_event = None
    /\ svc_done = None
    /\ svc_result = "Ok"
    /\ debug_msg = None
    /\ ext_channel = None
    /\ ext_client = None
    /\ ext_responses = <<>>

\* A requester puts a command into the deferred channel and waits for its response
ExternalExecute ==
    \E command \in ExternalCommands :
        /\ ext_client = None
        /\ ext_channel = None
        /\ ext_channel' = Some(command)
        /\ ext_client' = Some(command)
        /\ ext_responses' = <<>>
        /\ UNCHANGED <<port_status, processed, svc_event, svc_done, svc_result, debug_msg>>
        /\ UNCHANGED <<ucsi_vars, wrapper_vars, rest_vars>>

\* The requester takes the response it waited for
ExternalReceive ==
    /\ ext_client # None
    /\ ext_responses # <<>>
    /\ ext_client' = None
    /\ UNCHANGED <<port_status, processed, svc_event, svc_done, svc_result, debug_msg,
                   ext_channel, ext_responses>>
    /\ UNCHANGED <<ucsi_vars, wrapper_vars, rest_vars>>

\* mod.rs:187-199: wait_next returns a PortStatusChanged with the status it fetched
WaitNextPortStatusChanged ==
    \E port_id \in EventPorts, status \in StatusChoices :
        /\ svc_event = None
        /\ svc_event' = Some(Event("PortStatusChanged", port_id, status, NoExternalCommand))
        /\ UNCHANGED <<port_status, processed, svc_done, svc_result, debug_msg,
                       ext_channel, ext_client, ext_responses>>
        /\ UNCHANGED <<ucsi_vars, wrapper_vars, rest_vars>>

\* mod.rs:210-212: wait_next takes the request out of the channel
WaitNextExternalCommand ==
    /\ svc_event = None
    /\ ext_channel # None
    /\ svc_event' = Some(Event("ExternalCommand", NoPort, PortStatus_default, ext_channel[1]))
    /\ ext_channel' = None
    /\ UNCHANGED <<port_status, processed, svc_done, svc_result, debug_msg,
                   ext_client, ext_responses>>
    /\ UNCHANGED <<ucsi_vars, wrapper_vars, rest_vars>>

\* mod.rs:221-224: process_event for a PortStatusChanged
ProcessPortStatusChanged ==
    /\ svc_event # None
    /\ svc_event[1].kind = "PortStatusChanged"
    /\ \E r \in {process_port_event(port_status, svc_event[1].port, svc_event[1].status)} :
          /\ port_status' = r.cache
          /\ svc_result' = r.result
          /\ debug_msg' = r.msg
    /\ processed' = IF svc_event[1].port \in CachedPorts
                    THEN [processed EXCEPT ![svc_event[1].port] = svc_event[1].status]
                    ELSE processed
    /\ svc_done' = svc_event
    /\ svc_event' = None
    /\ UNCHANGED <<ext_channel, ext_client, ext_responses>>
    /\ UNCHANGED <<ucsi_vars, wrapper_vars, rest_vars>>

\* deferred::Request::respond: the response goes to the request's own slot
respond(responses, resp) == Append(responses, resp)

\* process_event that answers only when the sub-handler succeeded
answer_external_ok_only(responses, kind, result) ==
    IF is_err(result) THEN responses
    ELSE respond(responses, ExternalResponse(kind, result, NoUcsiResponse))

\* mod.rs:230-235 with mod.rs:169-175: the responses in the slot after process_event
\* answered a Controller or Port command whose sub-handler returned result
answer_external(responses, kind, result) ==
    respond(responses, ExternalResponse(kind, result, NoUcsiResponse))

\* mod.rs:230-235 with mod.rs:173: the same for a Ucsi command
answer_external_ucsi(responses, ucsi_response) ==
    respond(responses, ExternalResponse("Ucsi", ucsi_response.data, ucsi_response))

\* mod.rs:230-235: process_event for an ExternalCommand
ProcessExternalCommand ==
    /\ svc_event # None
    /\ svc_event[1].kind = "ExternalCommand"
    /\ \/ /\ svc_event[1].command.kind \in {"Controller", "Port"}
          /\ \E result \in HandlerResults :
                ext_responses' = answer_external(ext_responses, svc_event[1].command.kind, result)
          /\ UNCHANGED ucsi_vars
       \/ /\ svc_event[1].command.kind = "Ucsi"
          /\ UcsiCall(<<svc_event[1].command.ucsi, "Ok_None">>)
          /\ ext_responses' = answer_external_ucsi(ext_responses, response')
    /\ svc_result' = "Ok"
    /\ svc_done' = svc_event
    /\ svc_event' = None
    /\ debug_msg' = None
    /\ UNCHANGED <<port_status, processed, ext_channel, ext_client>>
    /\ UNCHANGED <<wrapper_vars, rest_vars>>

----------------------------------------------------------------------------
(* ControllerWrapper: power-policy requests, wrapper.rs *)

\* ControllerWrapper<N, C>: the number of ports and of power-policy devices
N == 2

LocalPorts == 0 .. (N - 1)

\* policy::device::RequestData; ConnectProvider stands for the requests that
\* process_power_command leaves to its catch-all arm
PowerRequests == {"ConnectConsumer", "Disconnect", "ConnectProvider"}

\* Controller::enable_sink_path: what the driver returns
DriverResults == {"Ok", "Err_Bus"}

\* wrapper.rs:61-66
get_power_device(port) ==
    IF port > N THEN [ok |-> FALSE, device |-> NoPort] ELSE [ok |-> TRUE, device |-> port]

\* wrapper.rs:219-225: select_array returns the first device, in index order,
\* whose request slot holds a request
wait_power_command(requests) ==
    LET port == Min({p \in LocalPorts : requests[p] # None})
    IN  [command |-> requests[port][1], port |-> port]

\* process_power_command that returns without a response when the driver call fails
process_power_command_silent_failure(port, command, driver_result, path) ==
    LET power == get_power_device(port)
        enable == (command = "ConnectConsumer")
    IN  CASE ~power.ok ->
               [responses |-> <<>>, driver |-> "none", sink_path |-> path]
          [] power.ok /\ command \in {"ConnectConsumer", "Disconnect"} /\ driver_result # "Ok" ->
               [responses |-> <<>>, driver |-> driver_result, sink_path |-> path]
          [] power.ok /\ command \in {"ConnectConsumer", "Disconnect"} /\ driver_result = "Ok" ->
               [responses |-> <<"Ok_Complete">>, driver |-> driver_result,
                sink_path |-> [path EXCEPT ![port] = enable]]
          [] OTHER ->
               [responses |-> <<"Ok_Complete">>, driver |-> "none", sink_path |-> path]

\* wrapper.rs:229-260: the responses sent on the device, the driver's result
\* ("none" when enable_sink_path was not called) and the sink paths afterwards
process_power_command(port, command, driver_result, path) ==
    LET power == get_power_device(port)
        enable == (command = "ConnectConsumer")
    IN  CASE ~power.ok ->
               [responses |-> <<>>, driver |-> "none", sink_path |-> path]
          [] power.ok /\ command \in {"ConnectConsumer", "Disconnect"} /\ driver_result # "Ok" ->
               [responses |-> <<"Err_Failed">>, driver |-> driver_result, sink_path |-> path]
          [] power.ok /\ command \in {"ConnectConsumer", "Disconnect"} /\ driver_result = "Ok" ->
               [responses |-> <<"Ok_Complete">>, driver |-> driver_result,
                sink_path |-> [path EXCEPT ![port] = enable]]
          [] OTHER ->
               [responses |-> <<"Ok_Complete">>, driver |-> "none", sink_path |-> path]

InitWrapper ==
    /\ power_client = [p \in LocalPorts |-> None]
    /\ power_request = [p \in LocalPorts |-> None]
    /\ power_response = [p \in LocalPorts |-> <<>>]
    /\ power_command = None
    /\ power_driver = [p \in LocalPorts |-> "none"]
    /\ sink_path = [p \in LocalPorts |-> FALSE]

\* The power policy sends a request to a device and waits for the response
PolicyRequest ==
    \E port \in LocalPorts, command \in PowerRequests :
        /\ power_client[port] = None
        /\ power_request[port] = None
        /\ power_client' = [power_client EXCEPT ![port] = Some(command)]
        /\ power_request' = [power_request EXCEPT ![port] = Some(command)]
        /\ power_response' = [power_response EXCEPT ![port] = <<>>]
        /\ power_driver' = [power_driver EXCEPT ![port] = "none"]
        /\ UNCHANGED <<power_command, sink_path>>
        /\ UNCHANGED <<ucsi_vars, service_vars, rest_vars>>

\* The power policy takes the response it waited for
PolicyResponse ==
    \E port \in LocalPorts :
        /\ power_client[port] # None
        /\ power_response[port] # <<>>
        /\ power_client' = [power_client EXCEPT ![port] = None]
        /\ UNCHANGED <<power_request, power_response, power_command, power_driver, sink_path>>
        /\ UNCHANGED <<ucsi_vars, service_vars, rest_vars>>

\* wrapper.rs:301-306: process() gets a power command from wait_power_command
WaitPowerCommand ==
    /\ power_command = None
    /\ \E p \in LocalPorts : power_request[p] # None
    /\ \E r \in {wait_power_command(power_request)} :
          /\ power_command' = Some(r)
          /\ power_request' = [power_request EXCEPT ![r.port] = None]
    /\ UNCHANGED <<power_client, power_response, power_driver, sink_path>>
    /\ UNCHANGED <<ucsi_vars, service_vars, rest_vars>>

\* wrapper.rs:306: process() hands the command to process_power_command
ProcessPowerCommand ==
    /\ power_command # None
    /\ \E driver_result \in DriverResults :
          \E r \in {process_power_command(power_command[1].port, power_command[1].command,
                                          driver_result, sink_path)} :
              /\ power_response' = [power_response EXCEPT
                                      ![power_command[1].port] = @ \o r.responses]
              /\ power_driver' = [power_driver EXCEPT ![power_command[1].port] = r.driver]
              /\ sink_path' = r.sink_path
    /\ power_command' = None
    /\ UNCHANGED <<power_client, power_request>>
    /\ UNCHANGED <<ucsi_vars, service_vars, rest_vars>>

----------------------------------------------------------------------------
(* Service: power-policy events, service/power.rs *)

\* power_policy::UnconstrainedState
UnconstrainedState(unconstrained, available) ==
    [unconstrained |-> unconstrained, available |-> available]

\* The events of the model: power constrained, or unconstrained with one or two
\* unconstrained consumers available
UnconstrainedStates ==
    {UnconstrainedState(FALSE, 0), UnconstrainedState(FALSE, 1),
     UnconstrainedState(TRUE, 1), UnconstrainedState(TRUE, 2)}

\* power.rs:34-38, 75-83: set_unconstrained_power(port, want[port]) for the ports in
\* index order, stopping with the error at the first port whose controller fails
set_unconstrained_ports(power, want, failing) ==
    LET first == IF failing = {} THEN NumPorts ELSE Min(failing)
    IN  [result |-> IF failing = {} THEN "Ok" ELSE "Err_Failed",
         power |-> [p \in Ports |-> IF p < first THEN want[p] ELSE power[p]]]

\* set_unconstrained_all that gives each port the opposite of the flag it holds
set_unconstrained_all_toggles(power, unconstrained, failing) ==
    set_unconstrained_ports(power, [p \in Ports |-> ~power[p]], failing)

\* power.rs:29-40
set_unconstrained_all(power, unconstrained, failing) ==
    set_unconstrained_ports(power, [p \in Ports |-> unconstrained], failing)

\* power.rs:61-65: the first port whose cached status shows an available sink
\* contract with unconstrained power
position(cached) ==
    IF \E p \in Ports : cached[p] THEN Min({p \in Ports : cached[p]}) ELSE NoPort

\* process_unconstrained_state_change that unconstrains every port when power is
\* unconstrained, its own consumer included
process_unconstrained_state_change_all(power, cached, state, failing) ==
    IF state.unconstrained
    THEN set_unconstrained_all(power, TRUE, failing)
    ELSE set_unconstrained_all(power, FALSE, failing)

\* power.rs:43-98
process_unconstrained_state_change(power, cached, state, failing) ==
    IF state.unconstrained
    THEN IF state.available > 1
         THEN set_unconstrained_all(power, TRUE, failing)
         ELSE LET unconstrained_index == position(cached)
              IN  IF unconstrained_index # NoPort
                  THEN set_unconstrained_ports(
                           power, [p \in Ports |-> p # unconstrained_index], failing)
                  ELSE set_unconstrained_all(power, TRUE, failing)
    ELSE set_unconstrained_all(power, FALSE, failing)

NoPolicyEvent ==
    [op |-> "init", state |-> UnconstrainedState(FALSE, 0), own |-> NoPort, result |-> "Ok"]

InitPolicy ==
    /\ unconstrained_power = [p \in Ports |-> FALSE]
    /\ sink_unconstrained = [p \in Ports |-> FALSE]
    /\ policy_event = NoPolicyEvent

\* mod.rs:121-129: a port's cached status changes, as far as power.rs:61-65 reads it
CachedSinkContract ==
    \E p \in Ports, flag \in BOOLEAN :
        /\ sink_unconstrained' = [sink_unconstrained EXCEPT ![p] = flag]
        /\ UNCHANGED <<unconstrained_power, policy_event>>
        /\ UNCHANGED <<ucsi_vars, service_vars, wrapper_vars, lock_vars, channel_vars, deadline_vars, buffer_vars, debounce_vars, guard_vars, soc_vars, plug_vars, event_vars, pd_vars, timer_vars>>

\* power.rs:101-110: process_power_policy_event for an Unconstrained event. The power
\* policy counts its unconstrained consumers, so it reports at least as many as the
\* cache shows on the Service's own ports
ProcessPowerPolicyEvent ==
    \E state \in UnconstrainedStates, failing \in SUBSET Ports :
        /\ state.unconstrained =>
              Cardinality({p \in Ports : sink_unconstrained[p]}) <= state.available
        /\ \E r \in {process_unconstrained_state_change(
                          unconstrained_power, sink_unconstrained, state, failing)} :
              /\ unconstrained_power' = r.power
              /\ policy_event' = [op |-> "event", state |-> state,
                                  own |-> position(sink_unconstrained),
                                  result |-> r.result]
        /\ UNCHANGED sink_unconstrained
        /\ UNCHANGED <<ucsi_vars, service_vars, wrapper_vars, lock_vars, channel_vars, deadline_vars, buffer_vars, debounce_vars, guard_vars, soc_vars, plug_vars, event_vars, pd_vars, timer_vars>>

----------------------------------------------------------------------------
(* Service: the state mutex and the suspension points of the handlers *)

\* The Service's task: at "idle" between handlers, else at the await it is suspended
\* in; port and want are the loop variables of set_unconstrained_power
SvcPc(at, port, want) == [at |-> at, port |-> port, want |-> want]

SvcIdle == SvcPc("idle", NoPort, <<>>)

InitLock ==
    /\ state_lock = "free"
    /\ svc_pc = SvcIdle
    /\ reader_pc = "idle"

\* ucsi.rs:143, 186-190, 75-78: process_ucsi_command locks the state and, for an LPM
\* command, awaits execute_ucsi_command with the guard alive
UcsiCommandAwaitsController ==
    /\ svc_pc = SvcIdle
    /\ state_lock = "free"
    /\ state_lock' = "service"
    /\ svc_pc' = SvcPc("execute_ucsi_command", NoPort, <<>>)
    /\ UNCHANGED <<reader_pc, policy_vars>>
    /\ UNCHANGED <<ucsi_vars, service_vars, wrapper_vars, channel_vars, deadline_vars, buffer_vars, debounce_vars, guard_vars, soc_vars, plug_vars, event_vars, pd_vars, timer_vars>>

\* ucsi.rs:246, 273-277, 99-104: process_ucsi_event locks the state and awaits
\* broadcast_message with the guard alive
UcsiEventAwaitsBroadcast ==
    /\ svc_pc = SvcIdle
    /\ state_lock = "free"
    /\ state_lock' = "service"
    /\ svc_pc' = SvcPc("broadcast_message", NoPort, <<>>)
    /\ UNCHANGED <<reader_pc, policy_vars>>
    /\ UNCHANGED <<ucsi_vars, service_vars, wrapper_vars, channel_vars, deadline_vars, buffer_vars, debounce_vars, guard_vars, soc_vars, plug_vars, event_vars, pd_vars, timer_vars>>

\* power.rs:48-50, 92-95: process_unconstrained_state_change locks the state when
\* power is unconstrained, and then awaits set_unconstrained_power for the first port
UnconstrainedChangeBegins ==
    \E state \in UnconstrainedStates :
        /\ svc_pc = SvcIdle
        /\ state.unconstrained =>
              /\ state_lock = "free"
              /\ Cardinality({p \in Ports : sink_unconstrained[p]}) <= state.available
        /\ state_lock' = IF state.unconstrained THEN "service" ELSE state_lock
        /\ svc_pc' = SvcPc("set_unconstrained_power", 0,
                           process_unconstrained_state_change(
                               unconstrained_power, sink_unconstrained, state, {}).power)
        /\ UNCHANGED <<reader_pc, policy_vars>>
        /\ UNCHANGED <<ucsi_vars, service_vars, wrapper_vars, channel_vars, deadline_vars, buffer_vars, debounce_vars, guard_vars, soc_vars, plug_vars, event_vars, pd_vars, timer_vars>>

\* The handler returns: the guard is dropped
handler_returns ==
    /\ svc_pc' = SvcIdle
    /\ state_lock' = "free"

\* power.rs:34-38, 75-83: the controller answers set_unconstrained_power; the loop
\* goes on to the next port, or the handler returns (at once on an error)
SetUnconstrainedPowerAnswers ==
    \E ok \in BOOLEAN :
        /\ svc_pc.at = "set_unconstrained_power"
        /\ unconstrained_power' =
              IF ok THEN [unconstrained_power EXCEPT ![svc_pc.port] = svc_pc.want[svc_pc.port]]
              ELSE unconstrained_power
        /\ IF ok /\ svc_pc.port + 1 < NumPorts
           THEN svc_pc' = [svc_pc EXCEPT !.port = @ + 1] /\ UNCHANGED state_lock
           ELSE handler_returns
        /\ UNCHANGED <<reader_pc, sink_unconstrained, policy_event>>
        /\ UNCHANGED <<ucsi_vars, service_vars, wrapper_vars, channel_vars, deadline_vars, buffer_vars, debounce_vars, guard_vars, soc_vars, plug_vars, event_vars, pd_vars, timer_vars>>

\* ucsi.rs:75-78, 99-104: the awaited controller command or broadcast completes and
\* the handler returns
AwaitCompletes ==
    /\ svc_pc.at \in {"execute_ucsi_command", "broadcast_message"}
    /\ handler_returns
    /\ UNCHANGED <<reader_pc, policy_vars>>
    /\ UNCHANGED <<ucsi_vars, service_vars, wrapper_vars, channel_vars, deadline_vars, buffer_vars, debounce_vars, guard_vars, soc_vars, plug_vars, event_vars, pd_vars, timer_vars>>

\* mod.rs:121-129: set_cached_port_status locks, writes and unlocks without a wait
SetCachedPortStatus ==
    \E p \in Ports, flag \in BOOLEAN :
        /\ svc_pc = SvcIdle
        /\ state_lock = "free"
        /\ sink_unconstrained' = [sink_unconstrained EXCEPT ![p] = flag]
        /\ UNCHANGED <<unconstrained_power, policy_event, lock_vars>>
        /\ UNCHANGED <<ucsi_vars, service_vars, wrapper_vars, channel_vars, deadline_vars, buffer_vars, debounce_vars, guard_vars, soc_vars, plug_vars, event_vars, pd_vars, timer_vars>>

\* mod.rs:111-118: another task calls get_cached_port_status and waits for the mutex
ReaderCalls ==
    /\ reader_pc = "idle"
    /\ reader_pc' = "waiting"
    /\ UNCHANGED <<state_lock, svc_pc, policy_vars>>
    /\ UNCHANGED <<ucsi_vars, service_vars, wrapper_vars, channel_vars, deadline_vars, buffer_vars, debounce_vars, guard_vars, soc_vars, plug_vars, event_vars, pd_vars, timer_vars>>

\* mod.rs:116-117: the mutex is free: the task locks, reads and unlocks
ReaderReads ==
    /\ reader_pc = "waiting"
    /\ state_lock = "free"
    /\ reader_pc' = "idle"
    /\ UNCHANGED <<state_lock, svc_pc, policy_vars>>
    /\ UNCHANGED <<ucsi_vars, service_vars, wrapper_vars, channel_vars, deadline_vars, buffer_vars, debounce_vars, guard_vars, soc_vars, plug_vars, event_vars, pd_vars, timer_vars>>

----------------------------------------------------------------------------
(* Controller device: the command and response channels, type_c/controller.rs *)

\* The number of commands the caller issues
MaxCommands == 4

\* Channel<_, _, 1>
CHANNEL_CAPACITY == 1

\* Channel::send and Channel::receive as they complete
can_send(channel) == Len(channel) < CHANNEL_CAPACITY
can_receive(channel) == channel # <<>>

\* The caller: at "idle", or inside send_command for command id, awaiting the send
\* or the receive
CallerPc(at, id) == [at |-> at, id |-> id]

\* What send_port_command returned for command cmd: the response made for command
\* resp, or PdError::Timeout
CallerGot(cmd, resp, timeout) == [cmd |-> cmd, resp |-> resp, timeout |-> timeout]

InitChannel ==
    /\ command_channel = <<>>
    /\ response_channel = <<>>
    /\ caller_pc = CallerPc("idle", 0)
    /\ caller_got = None
    /\ wrapper_held = None
    /\ commands_sent = 0

\* controller.rs:405-418: send_port_command is called; send_command starts
CallerCalls ==
    /\ caller_pc.at = "idle"
    /\ commands_sent < MaxCommands
    /\ commands_sent' = commands_sent + 1
    /\ caller_pc' = CallerPc("send", commands_sent + 1)
    /\ UNCHANGED <<command_channel, response_channel, caller_got, wrapper_held>>
    /\ UNCHANGED <<ucsi_vars, service_vars, wrapper_vars, policy_vars, lock_vars, deadline_vars, buffer_vars, debounce_vars, guard_vars, soc_vars, plug_vars, event_vars, pd_vars, timer_vars>>

\* controller.rs:161: self.command.send(command).await completes
CallerSends ==
    /\ caller_pc.at = "send"
    /\ can_send(command_channel)
    /\ command_channel' = Append(command_channel, caller_pc.id)
    /\ caller_pc' = [caller_pc EXCEPT !.at = "receive"]
    /\ UNCHANGED <<response_channel, caller_got, wrapper_held, commands_sent>>
    /\ UNCHANGED <<ucsi_vars, service_vars, wrapper_vars, policy_vars, lock_vars, deadline_vars, buffer_vars, debounce_vars, guard_vars, soc_vars, plug_vars, event_vars, pd_vars, timer_vars>>

\* controller.rs:162: self.response.receive().await completes and the caller returns
CallerReceives ==
    /\ caller_pc.at = "receive"
    /\ can_receive(response_channel)
    /\ caller_got' = Some(CallerGot(caller_pc.id, Head(response_channel), FALSE))
    /\ response_channel' = Tail(response_channel)
    /\ caller_pc' = CallerPc("idle", 0)
    /\ UNCHANGED <<command_channel, wrapper_held, commands_sent>>
    /\ UNCHANGED <<ucsi_vars, service_vars, wrapper_vars, policy_vars, lock_vars, deadline_vars, buffer_vars, debounce_vars, guard_vars, soc_vars, plug_vars, event_vars, pd_vars, timer_vars>>

\* controller.rs:413-416: with_timeout expires, the send_command future is dropped
\* where it is and the caller gets PdError::Timeout
CallerTimesOut ==
    /\ caller_pc.at \in {"send", "receive"}
    /\ caller_got' = Some(CallerGot(caller_pc.id, 0, TRUE))
    /\ caller_pc' = CallerPc("idle", 0)
    /\ UNCHANGED <<command_channel, response_channel, wrapper_held, commands_sent>>
    /\ UNCHANGED <<ucsi_vars, service_vars, wrapper_vars, policy_vars, lock_vars, deadline_vars, buffer_vars, debounce_vars, guard_vars, soc_vars, plug_vars, event_vars, pd_vars, timer_vars>>

\* controller.rs:175-178: the wrapper's wait_command returns the command
WrapperWaitCommand ==
    /\ wrapper_held = None
    /\ can_receive(command_channel)
    /\ wrapper_held' = Some(Head(command_channel))
    /\ command_channel' = Tail(command_channel)
    /\ UNCHANGED <<response_channel, caller_pc, caller_got, commands_sent>>
    /\ UNCHANGED <<ucsi_vars, service_vars, wrapper_vars, policy_vars, lock_vars, deadline_vars, buffer_vars, debounce_vars, guard_vars, soc_vars, plug_vars, event_vars, pd_vars, timer_vars>>

\* controller.rs:180-187: the wrapper sends the response it made for the command
WrapperSendResponse ==
    /\ wrapper_held # None
    /\ can_send(response_channel)
    /\ response_channel' = Append(response_channel, wrapper_held[1])
    /\ wrapper_held' = None
    /\ UNCHANGED <<command_channel, caller_pc, caller_got, commands_sent>>
    /\ UNCHANGED <<ucsi_vars, service_vars, wrapper_vars, policy_vars, lock_vars, deadline_vars, buffer_vars, debounce_vars, guard_vars, soc_vars, plug_vars, event_vars, pd_vars, timer_vars>>

----------------------------------------------------------------------------
(* Controller Wrapper: the sink-ready deadline, type-c-service/src/wrapper/pd.rs *)

\* The last instant of the clock
MaxTime == 3

\* tSrcTransReq of the PD specification for the standard and the extended power
\* range, in ticks of the clock
T_SRC_TRANS_REQ_SPR_MS == 1
T_SRC_TRANS_REQ_EPR_MS == 2

\* The fields of PortStatus that check_sink_ready_timeout reads; available_sink_contract
\* stands for available_sink_contract.is_some()
SinkPortStatus(connection_present, available_sink_contract, epr) ==
    [connection_present |-> connection_present,
     available_sink_contract |-> available_sink_contract,
     epr |-> epr]

\* The statuses a controller reports: nothing attached, attached without a sink
\* contract, and attached with a sink contract in the standard or the extended range
SinkPortStatuses ==
    {SinkPortStatus(FALSE, FALSE, FALSE), SinkPortStatus(TRUE, FALSE, FALSE),
     SinkPortStatus(TRUE, TRUE, FALSE), SinkPortStatus(TRUE, TRUE, TRUE)}

\* pd.rs:54-58
timeout_ms(status) ==
    IF status.epr THEN T_SRC_TRANS_REQ_EPR_MS ELSE T_SRC_TRANS_REQ_SPR_MS

\* pd.rs:38-69, without the clearing of a running deadline
check_sink_ready_timeout_never_clears(state, now, status, port, new_contract, sink_ready) ==
    IF port >= N
    THEN [result |-> "InvalidPort", state |-> state]
    ELSE IF new_contract /\ ~sink_ready
    THEN [result |-> "Ok",
          state |-> [state EXCEPT ![port] = Some(now + timeout_ms(status))]]
    ELSE [result |-> "Ok", state |-> state]

\* pd.rs:38-69: state is port_states[..].sink_ready_deadline, now is Instant::now()
check_sink_ready_timeout(state, now, status, port, new_contract, sink_ready) ==
    IF port >= N
    THEN [result |-> "InvalidPort", state |-> state]
    ELSE IF new_contract /\ ~sink_ready
    THEN [result |-> "Ok",
          state |-> [state EXCEPT ![port] = Some(now + timeout_ms(status))]]
    ELSE IF /\ state[port] # None
            /\ \/ ~is_connected(status)
               \/ ~status.available_sink_contract
               \/ sink_ready
    THEN [result |-> "Ok", state |-> [state EXCEPT ![port] = None]]
    ELSE [result |-> "Ok", state |-> state]

\* Timer::at(deadline) is ready
timer_elapsed(deadline, now) == now >= deadline

\* pd.rs:75-84: the futures of wait_sink_ready_timeout that are ready; a future that
\* read no deadline is pending for ever
ready_futures(timers, now) ==
    {i \in LocalPorts : timers[i] # None /\ timer_elapsed(timers[i][1], now)}

\* pd.rs:74-89, returning before the deadline is reached
wait_sink_ready_timeout_early(state, timers, now) ==
    LET ready == {i \in LocalPorts : timers[i] # None}
    IN  IF ready = {}
        THEN None
        ELSE LET port_index == CHOOSE i \in ready : \A j \in ready : i <= j
             IN  Some([port |-> port_index,
                       state |-> [state EXCEPT ![port_index] = None]])

\* pd.rs:74-89: None while every future is pending; otherwise the port select_array
\* returns, the first ready future in the order of polling, and the state it leaves
wait_sink_ready_timeout(state, timers, now) ==
    LET ready == ready_futures(timers, now)
    IN  IF ready = {}
        THEN None
        ELSE LET port_index == CHOOSE i \in ready : \A j \in ready : i <= j
             IN  Some([port |-> port_index,
                       state |-> [state EXCEPT ![port_index] = None]])

\* The wrapper awaits wait_sink_ready_timeout in a select with its other events: when
\* another event wins, the future and the deadlines it read are dropped
select_lost(timers) == None

DeadlineLast(op, port, status, new_contract, sink_ready, result) ==
    [op |-> op, port |-> port, status |-> status, new_contract |-> new_contract,
     sink_ready |-> sink_ready, result |-> result]

DeadlineStep(op) ==
    DeadlineLast(op, 0, SinkPortStatus(FALSE, FALSE, FALSE), FALSE, FALSE, "Ok")

InitDeadline ==
    /\ sink_ready_deadline = [i \in LocalPorts |-> None]
    /\ clock = 0
    /\ wait_timers = None
    /\ deadline_last = DeadlineStep("init")

\* pd.rs:38-69: a port event is processed; a deadline is started only while the clock
\* can still reach it
CheckSinkReadyTimeout ==
    \E port \in 0 .. N, status \in SinkPortStatuses,
       new_contract \in BOOLEAN, sink_ready \in BOOLEAN :
        /\ (new_contract /\ ~sink_ready) => clock + timeout_ms(status) <= MaxTime
        /\ \E r \in {check_sink_ready_timeout(sink_ready_deadline, clock, status, port,
                                             new_contract, sink_ready)} :
            /\ sink_ready_deadline' = r.state
            /\ deadline_last' =
                   IF r.result = "InvalidPort"
                   THEN [DeadlineStep("check") EXCEPT !.port = port, !.result = r.result]
                   ELSE DeadlineLast("check", port, status, new_contract, sink_ready,
                                     r.result)
        /\ wait_timers' = select_lost(wait_timers)
        /\ UNCHANGED clock
        /\ UNCHANGED <<ucsi_vars, service_vars, wrapper_vars, policy_vars, lock_vars,
                       channel_vars, buffer_vars, debounce_vars, guard_vars, soc_vars, plug_vars, event_vars, pd_vars, timer_vars>>

\* pd.rs:75-76: wait_sink_ready_timeout is polled for the first time, every future
\* reads its port's deadline
WaitSinkReadyTimeoutPolled ==
    /\ wait_timers = None
    /\ wait_timers' = Some(sink_ready_deadline)
    /\ deadline_last' = DeadlineStep("poll")
    /\ UNCHANGED <<sink_ready_deadline, clock>>
    /\ UNCHANGED <<ucsi_vars, service_vars, wrapper_vars, policy_vars, lock_vars,
                   channel_vars, buffer_vars, debounce_vars, guard_vars, soc_vars, plug_vars, event_vars, pd_vars, timer_vars>>

\* pd.rs:78-80, 87-88: a timer is reached, its future clears the deadline and
\* wait_sink_ready_timeout returns the port
SinkReadyTimeoutReached ==
    /\ wait_timers # None
    /\ \E r \in {wait_sink_ready_timeout(sink_ready_deadline, wait_timers[1], clock)} :
        /\ r # None
        /\ sink_ready_deadline' = r[1].state
        /\ deadline_last' = [DeadlineStep("reached") EXCEPT !.port = r[1].port,
                                                            !.result = "LocalPortId"]
    /\ wait_timers' = None
    /\ UNCHANGED clock
    /\ UNCHANGED <<ucsi_vars, service_vars, wrapper_vars, policy_vars, lock_vars,
                   channel_vars, buffer_vars, debounce_vars, guard_vars, soc_vars, plug_vars, event_vars, pd_vars, timer_vars>>

\* Instant::now() moves on
ClockAdvances ==
    /\ clock < MaxTime
    /\ clock' = clock + 1
    /\ deadline_last' = DeadlineStep("tick")
    /\ UNCHANGED <<sink_ready_deadline, wait_timers>>
    /\ UNCHANGED <<ucsi_vars, service_vars, wrapper_vars, policy_vars, lock_vars,
                   channel_vars, buffer_vars, debounce_vars, guard_vars, soc_vars, plug_vars, event_vars, pd_vars, timer_vars>>


----------------------------------------------------------------------------
(* Buffer: dynamic borrow checking, src/buffer.rs *)

\* The number of buffers and the number of guards that can be alive at a time
NumBuffers == 2
MaxGuards == 3

Buffers == 1 .. NumBuffers
GuardSlots == 1 .. MaxGuards

\* enum Status (buffer.rs:22-27)
Status_None == [kind |-> "None", count |-> 0]
Status_Mutable == [kind |-> "Mutable", count |-> 0]
Status_Immutable(count) == [kind |-> "Immutable", count |-> count]

\* buffer.rs:53-62 with a shared borrow admitted next to a mutable one
borrow_shared_with_mutable(status, mutable) ==
    CASE status.kind = "None" /\ ~mutable -> [panic |-> FALSE, status |-> Status_Immutable(1)]
      [] status.kind = "None" /\ mutable -> [panic |-> FALSE, status |-> Status_Mutable]
      [] status.kind = "Mutable" /\ mutable -> [panic |-> TRUE, status |-> status]
      [] status.kind = "Mutable" /\ ~mutable ->
             [panic |-> FALSE, status |-> Status_Immutable(1)]
      [] status.kind = "Immutable" /\ ~mutable ->
             [panic |-> FALSE, status |-> Status_Immutable(status.count + 1)]
      [] status.kind = "Immutable" /\ mutable -> [panic |-> TRUE, status |-> status]

\* Buffer::borrow (buffer.rs:53-62): the new status, or a panic that leaves it as it is
borrow(status, mutable) ==
    CASE status.kind = "None" /\ ~mutable -> [panic |-> FALSE, status |-> Status_Immutable(1)]
      [] status.kind = "None" /\ mutable -> [panic |-> FALSE, status |-> Status_Mutable]
      [] status.kind = "Mutable" -> [panic |-> TRUE, status |-> status]
      [] status.kind = "Immutable" /\ ~mutable ->
             [panic |-> FALSE, status |-> Status_Immutable(status.count + 1)]
      [] status.kind = "Immutable" /\ mutable -> [panic |-> TRUE, status |-> status]

\* Buffer::drop_borrow (buffer.rs:64-73)
drop_borrow(status) ==
    CASE status.kind = "None" -> [panic |-> TRUE, status |-> status]
      [] status.kind = "Mutable" -> [panic |-> FALSE, status |-> Status_None]
      [] status.kind = "Immutable" /\ status.count = 0 -> [panic |-> TRUE, status |-> status]
      [] status.kind = "Immutable" /\ status.count = 1 ->
             [panic |-> FALSE, status |-> Status_None]
      [] status.kind = "Immutable" /\ status.count > 1 ->
             [panic |-> FALSE, status |-> Status_Immutable(status.count - 1)]

\* A live guard: AccessMut (buffer.rs:99-124) or Access (buffer.rs:158-181) of a buffer
Guard(buffer, mutable) == [buffer |-> buffer, mutable |-> mutable]

\* The live guards of a buffer
AccessMutGuards(b) == {g \in GuardSlots : guards[g] # None /\ guards[g][1] = Guard(b, TRUE)}
AccessGuards(b) == {g \in GuardSlots : guards[g] # None /\ guards[g][1] = Guard(b, FALSE)}

BufferLast(op, buffer, mutable, panic) ==
    [op |-> op, buffer |-> buffer, mutable |-> mutable, panic |-> panic]

InitBuffer ==
    /\ buffer_status = [b \in Buffers |-> Status_None]
    /\ guards = [g \in GuardSlots |-> None]
    /\ buffer_last = BufferLast("new", 1, FALSE, FALSE)

\* AccessMut::new / Access::new (buffer.rs:102-105, 164-167): borrow, and the guard
\* exists only when borrow did not panic
NewGuard(mutable) ==
    \E b \in Buffers, g \in GuardSlots :
        /\ guards[g] = None
        /\ \A h \in GuardSlots : h < g => guards[h] # None
        /\ \E r \in {borrow(buffer_status[b], mutable)} :
            /\ buffer_status' = [buffer_status EXCEPT ![b] = r.status]
            /\ guards' = IF r.panic THEN guards
                         ELSE [guards EXCEPT ![g] = Some(Guard(b, mutable))]
            /\ buffer_last' = BufferLast("borrow", b, mutable, r.panic)
        /\ UNCHANGED <<ucsi_vars, service_vars, wrapper_vars, policy_vars, lock_vars, channel_vars, deadline_vars, debounce_vars, guard_vars, soc_vars, plug_vars, event_vars, pd_vars, timer_vars>>

\* OwnedRef::borrow_mut (buffer.rs:93-95)
BorrowMut == NewGuard(TRUE)

\* OwnedRef::borrow, SharedRef::borrow (buffer.rs:87-89, 140-142)
Borrow == NewGuard(FALSE)

\* Drop for AccessMut and for Access (buffer.rs:120-124, 177-181)
DropGuard ==
    \E g \in GuardSlots :
        /\ guards[g] # None
        /\ \E r \in {drop_borrow(buffer_status[guards[g][1].buffer])} :
            /\ buffer_status' = [buffer_status EXCEPT ![guards[g][1].buffer] = r.status]
            /\ buffer_last' =
                   BufferLast("drop", guards[g][1].buffer, guards[g][1].mutable, r.panic)
        /\ guards' = [guards EXCEPT ![g] = None]
        /\ UNCHANGED <<ucsi_vars, service_vars, wrapper_vars, policy_vars, lock_vars, channel_vars, deadline_vars, debounce_vars, guard_vars, soc_vars, plug_vars, event_vars, pd_vars, timer_vars>>


----------------------------------------------------------------------------
(* Power button: the Debouncer, power-button-service/src/debounce.rs *)

\* The largest threshold a Debouncer is created with
MaxThreshold == 3

\* What the GPIO reads: a level, or an error of is_low / is_high
PinLevels == {"Low", "High", "Err"}

ActiveStates == {"ActiveLow", "ActiveHigh"}

\* debounce.rs:56-59: is_low().unwrap_or(false) or is_high().unwrap_or(false)
is_pressed(active_state, level) ==
    IF active_state = "ActiveLow" THEN level = "Low" ELSE level = "High"

\* struct Debouncer (debounce.rs:18-24), without sample_interval
Debouncer(integrator, threshold, active_state, pressed) ==
    [integrator |-> integrator, threshold |-> threshold,
     active_state |-> active_state, pressed |-> pressed]

\* debounce.rs:54-76 reporting a press as soon as the integrator moves off 0
update_eager(d, level) ==
    LET integrator ==
            IF is_pressed(d.active_state, level)
            THEN IF d.integrator < d.threshold THEN d.integrator + 1 ELSE d.integrator
            ELSE IF d.integrator > 0 THEN d.integrator - 1 ELSE d.integrator
        pressed ==
            IF integrator > 0 /\ ~d.pressed THEN TRUE
            ELSE IF integrator = 0 /\ d.pressed THEN FALSE
            ELSE d.pressed
    IN  [d EXCEPT !.integrator = integrator, !.pressed = pressed]

\* Debouncer::update (debounce.rs:54-76)
update(d, level) ==
    LET integrator ==
            IF is_pressed(d.active_state, level)
            THEN IF d.integrator < d.threshold THEN d.integrator + 1 ELSE d.integrator
            ELSE IF d.integrator > 0 THEN d.integrator - 1 ELSE d.integrator
        pressed ==
            IF integrator = d.threshold /\ ~d.pressed THEN TRUE
            ELSE IF integrator = 0 /\ d.pressed THEN FALSE
            ELSE d.pressed
    IN  [d EXCEPT !.integrator = integrator, !.pressed = pressed]

DebounceLast(op, level, returned) == [op |-> op, level |-> level, returned |-> returned]

\* The threshold of Debouncer::default()
DEFAULT_THRESHOLD == 3

\* Debouncer::default() (debounce.rs:80-89)
InitDebounce ==
    /\ debouncer = Debouncer(0, DEFAULT_THRESHOLD, "ActiveLow", FALSE)
    /\ previous_pressed = None
    /\ debounce_last = DebounceLast("new", "High", None)

\* Debouncer::new (debounce.rs:28-36) with any threshold up to MaxThreshold
DebouncerNew ==
    \E threshold \in 0 .. MaxThreshold, active_state \in ActiveStates :
        /\ previous_pressed = None
        /\ debouncer' = Debouncer(0, threshold, active_state, FALSE)
        /\ debounce_last' = DebounceLast("new", "High", None)
        /\ UNCHANGED previous_pressed
        /\ UNCHANGED <<ucsi_vars, service_vars, wrapper_vars, policy_vars, lock_vars, channel_vars, deadline_vars, buffer_vars, guard_vars, soc_vars, plug_vars, event_vars, pd_vars, timer_vars>>

\* debounce.rs:39-40: debounce is called and remembers the reported state
DebounceCalled ==
    /\ previous_pressed = None
    /\ previous_pressed' = Some(debouncer.pressed)
    /\ debounce_last' = DebounceLast("call", "High", None)
    /\ UNCHANGED debouncer
    /\ UNCHANGED <<ucsi_vars, service_vars, wrapper_vars, policy_vars, lock_vars, channel_vars, deadline_vars, buffer_vars, guard_vars, soc_vars, plug_vars, event_vars, pd_vars, timer_vars>>

\* debounce.rs:42-51: one turn of the loop, a sample is taken; debounce returns the
\* reported state when it differs from the remembered one, otherwise it waits for the
\* next sample interval
DebounceSample ==
    \E level \in PinLevels :
        /\ previous_pressed # None
        /\ \E d \in {update(debouncer, level)} :
            /\ debouncer' = d
            /\ IF d.pressed # previous_pressed[1]
               THEN /\ previous_pressed' = None
                    /\ debounce_last' = DebounceLast("sample", level, Some(d.pressed))
               ELSE /\ previous_pressed' = previous_pressed
                    /\ debounce_last' = DebounceLast("sample", level, None)
        /\ UNCHANGED <<ucsi_vars, service_vars, wrapper_vars, policy_vars, lock_vars, channel_vars, deadline_vars, buffer_vars, guard_vars, soc_vars, plug_vars, event_vars, pd_vars, timer_vars>>


----------------------------------------------------------------------------
(* SoC manager: the PowerGuard, soc-manager-service/src/power_guard.rs *)

\* The capacity of the PowerGuard's stack
MAX_SIZE == 3

\* The regulators: one more than the guard can hold
Regulators == 1 .. (MAX_SIZE + 1)

\* enum Op (power_guard.rs:46-51): an operation on a regulator the guard borrows
Op(kind, r) == [kind |-> kind, r |-> r]

Ops == {Op(kind, r) : kind \in {"Enable", "Disable"}, r \in Regulators}

\* A call made to a regulator and whether it succeeded
RegulatorCall(r, call, ok) == [r |-> r, call |-> call, ok |-> ok]

\* power_guard.rs:123-126: the call that executes an operation
forward_call(op) == IF op.kind = "Enable" THEN "enable" ELSE "disable"

\* power_guard.rs:99-106 undoing an operation by repeating it
rollback_once_repeats(stack, ok) ==
    IF stack = <<>>
    THEN [result |-> "Empty", stk |-> stack, calls |-> <<>>]
    ELSE LET op == stack[Len(stack)]
         IN  [result |-> IF ok THEN "Ok" ELSE "RollbackFailure",
              stk |-> SubSeq(stack, 1, Len(stack) - 1),
              calls |-> <<RegulatorCall(op.r, forward_call(op), ok)>>]

\* PowerGuard::rollback_once (power_guard.rs:99-106): pop, then undo what was popped;
\* ok is the result of the regulator call
rollback_once(stack, ok) ==
    IF stack = <<>>
    THEN [result |-> "Empty", stk |-> stack, calls |-> <<>>]
    ELSE LET op == stack[Len(stack)]
         IN  [result |-> IF ok THEN "Ok" ELSE "RollbackFailure",
              stk |-> SubSeq(stack, 1, Len(stack) - 1),
              calls |-> <<RegulatorCall(op.r, IF op.kind = "Enable" THEN "disable"
                                                ELSE "enable", ok)>>]

\* PowerGuard::rollback (power_guard.rs:82-90): rollback_once until the stack is empty
\* or an undo fails; the fail_at-th undo fails, none when fail_at = 0
RECURSIVE rollback(_, _)
rollback(stack, fail_at) ==
    LET once == rollback_once(stack, fail_at # 1)
    IN  CASE once.result = "Ok" ->
                 LET rest == rollback(once.stk, IF fail_at = 0 THEN 0 ELSE fail_at - 1)
                 IN  [rest EXCEPT !.calls = once.calls \o rest.calls]
          [] once.result = "Empty" -> [once EXCEPT !.result = "Ok"]
          [] OTHER -> once

\* PowerGuard::execute (power_guard.rs:117-135); ok is the result of the operation
execute(stack, cmd, ok, fail_at) ==
    IF Len(stack) = MAX_SIZE
    THEN [result |-> "Full", stk |-> stack, calls |-> <<>>]
    ELSE IF ok
    THEN [result |-> "Ok", stk |-> Append(stack, cmd), calls |-> <<>>]
    ELSE LET undone == rollback(stack, fail_at)
         IN  IF undone.result = "Ok"
             THEN [undone EXCEPT !.result = "OpFailure"]
             ELSE undone

GuardLast(op, cmd, ok, result, calls) ==
    [op |-> op, cmd |-> cmd, ok |-> ok, result |-> result, calls |-> calls]

\* The regulators the guard has borrowed
held(stack) == {stack[i].r : i \in 1 .. Len(stack)}

\* PowerGuard::new (power_guard.rs:70-72)
InitGuard ==
    /\ stk = <<>>
    /\ guard_last = GuardLast("new", Op("Enable", 1), TRUE, "Ok", <<>>)

\* power_guard.rs:117-135: an operation on a regulator the guard does not hold yet
Execute ==
    \E cmd \in Ops, ok \in BOOLEAN, fail_at \in 0 .. MAX_SIZE :
        /\ cmd.r \notin held(stk)
        /\ fail_at <= (IF ok \/ Len(stk) = MAX_SIZE THEN 0 ELSE Len(stk))
        /\ \E r \in {execute(stk, cmd, ok, fail_at)} :
            /\ stk' = r.stk
            /\ guard_last' = GuardLast("execute", cmd, ok \/ Len(stk) = MAX_SIZE,
                                       r.result, r.calls)
        /\ UNCHANGED <<ucsi_vars, service_vars, wrapper_vars, policy_vars, lock_vars, channel_vars, deadline_vars, buffer_vars, debounce_vars, soc_vars, plug_vars, event_vars, pd_vars, timer_vars>>

\* power_guard.rs:82-90
Rollback ==
    \E fail_at \in 0 .. MAX_SIZE :
        /\ fail_at <= Len(stk)
        /\ \E r \in {rollback(stk, fail_at)} :
            /\ stk' = r.stk
            /\ guard_last' = GuardLast("rollback", Op("Enable", 1), TRUE, r.result, r.calls)
        /\ UNCHANGED <<ucsi_vars, service_vars, wrapper_vars, policy_vars, lock_vars, channel_vars, deadline_vars, buffer_vars, debounce_vars, soc_vars, plug_vars, event_vars, pd_vars, timer_vars>>

\* power_guard.rs:99-106
RollbackOnce ==
    \E ok \in BOOLEAN :
        /\ stk = <<>> => ok
        /\ \E r \in {rollback_once(stk, ok)} :
            /\ stk' = r.stk
            /\ guard_last' =
                   GuardLast("rollback_once", Op("Enable", 1), TRUE, r.result, r.calls)
        /\ UNCHANGED <<ucsi_vars, service_vars, wrapper_vars, policy_vars, lock_vars, channel_vars, deadline_vars, buffer_vars, debounce_vars, soc_vars, plug_vars, event_vars, pd_vars, timer_vars>>

\* power_guard.rs:139-141
Clear ==
    /\ stk' = <<>>
    /\ guard_last' = GuardLast("clear", Op("Enable", 1), TRUE, "Ok", <<>>)
    /\ UNCHANGED <<ucsi_vars, service_vars, wrapper_vars, policy_vars, lock_vars, channel_vars, deadline_vars, buffer_vars, debounce_vars, soc_vars, plug_vars, event_vars, pd_vars, timer_vars>>


----------------------------------------------------------------------------
(* SoC manager: set_power_state, soc-manager-service/src/lib.rs *)

\* The number of tasks that call set_power_state on the shared SocManager
NumCallers == 2

SocCallers == 1 .. NumCallers

\* enum PowerState (lib.rs:28-39)
PowerStates == {"S0", "S0ix", "S3", "S4", "S5"}

\* lib.rs:119-134: the power-sequence operation the match selects, "none" for the
\* pairs that are an invalid transition
power_sequence(cur_state, state) ==
    CASE cur_state = "S0ix" /\ state = "S0" -> "wake_up"
      [] cur_state = "S3" /\ state = "S0" -> "resume"
      [] cur_state = "S4" /\ state = "S0" -> "activate"
      [] cur_state = "S5" /\ state = "S0" -> "power_on"
      [] cur_state = "S0" /\ state = "S0ix" -> "idle"
      [] cur_state = "S0" /\ state = "S3" -> "suspend"
      [] cur_state = "S0" /\ state = "S4" -> "hibernate"
      [] cur_state = "S0" /\ state = "S5" -> "power_off"
      [] OTHER -> "none"

\* A call of set_power_state: where it is, the state it read and the state it was given
SocCall(at, cur_state, state) == [at |-> at, cur_state |-> cur_state, state |-> state]

SocIdle == SocCall("idle", "S5", "S5")

\* What a set_power_state call did: the published state it ran under, the operation
\* it ran on the hardware and its result
SocLast(op, caller, published, state, sequence, result) ==
    [op |-> op, caller |-> caller, published |-> published, state |-> state,
     sequence |-> sequence, result |-> result]

\* SocManager::new (lib.rs:78-86) for a SoC that is powered off
InitSoc ==
    /\ power_state = "S5"
    /\ soc_lock = 0
    /\ soc_call = [c \in SocCallers |-> SocIdle]
    /\ soc_last = SocLast("new", 0, "S5", "S5", "none", "Ok")

\* lib.rs:114-115: set_power_state reads the published state, then asks for the lock
\* of the SoC and gets it at once when it is free
SetPowerStateCalled ==
    \E c \in SocCallers, state \in PowerStates :
        /\ soc_call[c].at = "idle"
        /\ soc_call' = [soc_call EXCEPT ![c] =
               SocCall(IF soc_lock = 0 THEN "locked" ELSE "waiting", power_state, state)]
        /\ soc_lock' = IF soc_lock = 0 THEN c ELSE soc_lock
        /\ soc_last' = SocLast("call", c, power_state, state, "none", "Ok")
        /\ UNCHANGED power_state
        /\ UNCHANGED <<ucsi_vars, service_vars, wrapper_vars, policy_vars, lock_vars, channel_vars, deadline_vars, buffer_vars, debounce_vars, guard_vars, plug_vars, event_vars, pd_vars, timer_vars>>

\* lib.rs:115: the lock is released by its holder and a waiting call gets it
SocLockAcquired ==
    \E c \in SocCallers :
        /\ soc_call[c].at = "waiting"
        /\ soc_lock = 0
        /\ soc_lock' = c
        /\ soc_call' = [soc_call EXCEPT ![c].at = "locked"]
        /\ soc_last' = SocLast("lock", c, power_state, soc_call[c].state, "none", "Ok")
        /\ UNCHANGED power_state
        /\ UNCHANGED <<ucsi_vars, service_vars, wrapper_vars, policy_vars, lock_vars, channel_vars, deadline_vars, buffer_vars, debounce_vars, guard_vars, plug_vars, event_vars, pd_vars, timer_vars>>

\* lib.rs:116-139: the match on (cur_state, state), the power sequence and its result,
\* the publication of the new state; the lock is released on return
SetPowerStateReturns ==
    \E c \in SocCallers, ok \in BOOLEAN :
        /\ soc_call[c].at = "locked"
        /\ \E sequence \in {power_sequence(soc_call[c].cur_state, soc_call[c].state)} :
            /\ sequence = "none" => ok
            /\ power_state' = IF sequence # "none" /\ ok THEN soc_call[c].state
                              ELSE power_state
            /\ soc_last' = SocLast("return", c, power_state, soc_call[c].state, sequence,
                                   CASE sequence = "none" -> "InvalidStateTransition"
                                     [] ~ok -> "PowerSequence"
                                     [] OTHER -> "Ok")
        /\ soc_lock' = 0
        /\ soc_call' = [soc_call EXCEPT ![c] = SocIdle]
        /\ UNCHANGED <<ucsi_vars, service_vars, wrapper_vars, policy_vars, lock_vars, channel_vars, deadline_vars, buffer_vars, debounce_vars, guard_vars, plug_vars, event_vars, pd_vars, timer_vars>>

----------------------------------------------------------------------------
(* ControllerWrapper: port events and the power-policy device, wrapper.rs  *)
(* The power-policy device (policy::device::Device and its typed actions)  *)
(* is outside this source tree: it is a state kind and three calls.        *)

\* StateKind of the power-policy device
StateKinds == {"Detached", "Idle", "ConnectedConsumer", "ConnectedProvider"}

\* PortStatus as the wrapper reads it: the connection and the kind of the contract
PlugStatus(connection_present, contract) ==
    [connection_present |-> connection_present, contract |-> contract]

\* The statuses get_port_status returns in the model: unplugged, plugged without a
\* contract, plugged with a sink contract
PlugStatuses ==
    { PlugStatus(FALSE, "None"), PlugStatus(TRUE, "None"), PlugStatus(TRUE, "Sink") }

PortEventKind_NONE == {}

\* The PortEventKind values clear_port_events returns in the model
PortEventKinds ==
    { PortEventKind_NONE,
      {"plug_inserted_or_removed"},
      {"new_power_contract_as_consumer"},
      {"plug_inserted_or_removed", "new_power_contract_as_consumer"} }

\* What goes wrong in the power-policy device while one port is handled: the calls
\* of `op` return Err, having moved the device's state or not
Fault(op, moved) == [op |-> op, moved |-> moved]

NoFault == Fault("none", FALSE)

Faults ==
    { NoFault, Fault("notify", FALSE) }
    \cup { Fault(op, moved) : op \in {"detach", "attach"}, moved \in BOOLEAN }

\* One call to the power-policy device: the state kind it was made in and its Result
DeviceCall(op, from, ok) == [op |-> op, from |-> from, ok |-> ok]

\* Device::detach: to Detached from any state
detach(kind, fault) ==
    IF fault.op = "detach"
    THEN [ok |-> FALSE, kind |-> IF fault.moved THEN "Detached" ELSE kind]
    ELSE [ok |-> TRUE, kind |-> "Detached"]

\* action::device::Device<Detached>::attach: from Detached to Idle
attach(kind, fault) ==
    IF fault.op = "attach"
    THEN [ok |-> FALSE, kind |-> IF fault.moved THEN "Idle" ELSE kind]
    ELSE [ok |-> TRUE, kind |-> "Idle"]

\* notify_consumer_power_capability of Device<Idle> and Device<ConnectedConsumer>:
\* the state kind stays
notify_consumer_power_capability(kind, fault) ==
    [ok |-> fault.op # "notify", kind |-> kind]

\* What a handler did: the device's state kind afterwards, the calls it made to the
\* device, and whether it returned through one of its error branches
Handled(kind, calls, error) == [kind |-> kind, calls |-> calls, error |-> error]

\* process_plug_event that attaches without recovering the device to Detached
process_plug_event_no_recover(kind, status, fault) ==
    IF status.connection_present
    THEN LET a == attach(kind, fault)
         IN  Handled(a.kind, <<DeviceCall("attach", kind, a.ok)>>, ~a.ok)
    ELSE LET d == detach(kind, fault)
         IN  Handled(d.kind, <<DeviceCall("detach", kind, d.ok)>>, ~d.ok)

\* wrapper.rs:70-102
process_plug_event(kind, status, fault) ==
    IF status.connection_present
    THEN LET recovering == kind # "Detached"
             d == IF recovering THEN detach(kind, fault) ELSE [ok |-> TRUE, kind |-> kind]
             recovery == IF recovering THEN <<DeviceCall("detach", kind, d.ok)>> ELSE <<>>
         IN  IF ~d.ok
             THEN Handled(d.kind, recovery, TRUE)
             ELSE IF d.kind = "Detached"
                  THEN LET a == attach(d.kind, fault)
                       IN  Handled(a.kind,
                                   Append(recovery, DeviceCall("attach", d.kind, a.ok)),
                                   ~a.ok)
                  ELSE Handled(d.kind, recovery, TRUE)
    ELSE LET d == detach(kind, fault)
         IN  Handled(d.kind, <<DeviceCall("detach", kind, d.ok)>>, ~d.ok)

\* process_new_consumer_contract that notifies without attaching a Detached device
process_new_consumer_contract_no_attach(kind, status, fault) ==
    IF status.contract # "Sink"
    THEN Handled(kind, <<>>, TRUE)
    ELSE IF kind = "ConnectedProvider"
         THEN Handled(kind, <<>>, FALSE)
         ELSE LET n == notify_consumer_power_capability(kind, fault)
              IN  Handled(n.kind, <<DeviceCall("notify", kind, n.ok)>>, ~n.ok)

\* wrapper.rs:106-155
process_new_consumer_contract(kind, status, fault) ==
    IF status.contract # "Sink"
    THEN Handled(kind, <<>>, TRUE)
    ELSE IF kind = "ConnectedProvider"
         THEN Handled(kind, <<>>, FALSE)
         ELSE LET attaching == kind = "Detached"
                  a == IF attaching THEN attach(kind, fault) ELSE [ok |-> TRUE, kind |-> kind]
                  recovery == IF attaching THEN <<DeviceCall("attach", kind, a.ok)>> ELSE <<>>
              IN  IF ~a.ok
                  THEN Handled(a.kind, recovery, TRUE)
                  ELSE IF a.kind \in {"Idle", "ConnectedConsumer"}
                       THEN LET n == notify_consumer_power_capability(a.kind, fault)
                            IN  Handled(n.kind,
                                        Append(recovery, DeviceCall("notify", a.kind, n.ok)),
                                        ~n.ok)
                       ELSE Handled(a.kind, recovery, TRUE)

NotHandled(kind) == Handled(kind, <<>>, FALSE)

\* wrapper.rs:162-213, the body of process_event's loop for one port: what the plug
\* handler and then the contract handler did to the port's power-policy device
process_event_port(port, kind, bus, event, status, fault) ==
    IF bus # "Ok" \/ event = PortEventKind_NONE \/ ~get_power_device(port).ok
    THEN [kind |-> kind, plug |-> NotHandled(kind), contract |-> NotHandled(kind)]
    ELSE LET plug == IF "plug_inserted_or_removed" \in event
                     THEN process_plug_event(kind, status, fault)
                     ELSE NotHandled(kind)
             contract == IF "new_power_contract_as_consumer" \in event
                         THEN process_new_consumer_contract(plug.kind, status, fault)
                         ELSE NotHandled(plug.kind)
         IN  [kind |-> contract.kind, plug |-> plug, contract |-> contract]

\* The loop body handled last: its inputs and the state kind it found the device in
PortLast(port, before, bus, event, status, fault) ==
    [port |-> port, before |-> before, bus |-> bus, event |-> event, status |-> status,
     fault |-> fault]

\* ControllerWrapper::new with its power-policy devices as created, and process_event
\* about to look at its first port
InitPlug ==
    /\ power_devices = [p \in LocalPorts |-> "Detached"]
    /\ event_pc = 0
    /\ port_last = PortLast(NoPort, "Detached", "Ok", PortEventKind_NONE, PlugStatus(FALSE, "None"),
                            NoFault)

\* wrapper.rs:162-213: process_event handles the next port of its loop
ProcessEventPort ==
    \E bus \in DriverResults, event \in PortEventKinds, status \in PlugStatuses,
       fault \in Faults :
        /\ event_pc < N
        \* a failed read, or no event, leaves nothing to tell apart
        /\ (bus # "Ok" \/ event = PortEventKind_NONE) =>
               (event = PortEventKind_NONE /\ status = PlugStatus(FALSE, "None")
                /\ fault = NoFault)
        /\ \E r \in {process_event_port(event_pc, power_devices[event_pc], bus, event,
                                        status, fault)} :
               power_devices' = [power_devices EXCEPT ![event_pc] = r.kind]
        /\ port_last' = PortLast(event_pc, power_devices[event_pc], bus, event, status, fault)
        /\ event_pc' = event_pc + 1
        /\ UNCHANGED <<ucsi_vars, service_vars, wrapper_vars, policy_vars, lock_vars, channel_vars, deadline_vars, buffer_vars, debounce_vars, guard_vars, soc_vars, event_vars, pd_vars, timer_vars>>

\* wrapper.rs:215: after the last port process_event notifies the service; the next
\* call of process_event starts at the first port
NotifyPorts ==
    /\ event_pc = N
    /\ event_pc' = 0
    /\ UNCHANGED <<power_devices, port_last>>
    /\ UNCHANGED <<ucsi_vars, service_vars, wrapper_vars, policy_vars, lock_vars, channel_vars, deadline_vars, buffer_vars, debounce_vars, guard_vars, soc_vars, event_vars, pd_vars, timer_vars>>

\* The power policy connects an attached device as consumer or provider, or
\* disconnects it
PolicyTransition ==
    \E p \in LocalPorts, kind \in StateKinds :
        /\ power_devices[p] # "Detached" /\ kind # "Detached"
        /\ (power_devices[p] = "Idle") # (kind = "Idle")
        /\ power_devices' = [power_devices EXCEPT ![p] = kind]
        /\ UNCHANGED <<event_pc, port_last>>
        /\ UNCHANGED <<ucsi_vars, service_vars, wrapper_vars, policy_vars, lock_vars, channel_vars, deadline_vars, buffer_vars, debounce_vars, guard_vars, soc_vars, event_vars, pd_vars, timer_vars>>

----------------------------------------------------------------------------
(* The Service's UCSI state with the event of process_ucsi_event observed *)

\* The commands of UcsiCalls, and a SetNotificationEnable that enables the power
\* level notifications without connect_change
UcsiCallsSeen ==
    UcsiCalls \cup {<<SetNotificationEnable({"negotiated_power_level_change"}), "Ok_None">>}

InitEventSeen == event_seen = {}

\* Service::process_ucsi_command, called for an external Ucsi command
UcsiCommandSeen ==
    \E c \in UcsiCallsSeen :
        /\ UcsiCall(c)
        /\ event_seen' = {}
        /\ UNCHANGED <<service_vars, wrapper_vars, policy_vars, lock_vars, channel_vars, deadline_vars, buffer_vars, debounce_vars, guard_vars, soc_vars, plug_vars, pd_vars, timer_vars>>

\* Service::process_ucsi_event, called for a PortStatusChanged event
UcsiEventSeen ==
    \E port_id \in Ports, port_event \in EventChoices :
        /\ UcsiEventOf(port_id, port_event)
        /\ event_seen' = port_event
        /\ UNCHANGED <<service_vars, wrapper_vars, policy_vars, lock_vars, channel_vars, deadline_vars, buffer_vars, debounce_vars, guard_vars, soc_vars, plug_vars, pd_vars, timer_vars>>

----------------------------------------------------------------------------
(* ControllerWrapper: cached port events, the PortEventFlags batch and PD    *)
(* commands (wrapper.rs), and the port-event signal of the controller        *)
(* context (type_c/controller.rs). PortEventKind and PortEventFlags are      *)
(* outside this source tree: a set of event bits and a set of global ports.  *)

\* Device::ports of the wrapper's controller: local port l is the global port
\* FirstGlobalPort + l; the global port below belongs to another controller
FirstGlobalPort == 1

OtherGlobalPort == FirstGlobalPort - 1

\* controller.rs:171-177
lookup_global_port(port) ==
    IF port >= N THEN [ok |-> FALSE, port |-> NoPort]
    ELSE [ok |-> TRUE, port |-> FirstGlobalPort + port]

\* PortEventFlags(0) and PortEventFlags::set_bit(port, true)
PortEventFlags_none == {}
set_bit(flags, port) == flags \cup {port}

\* What clear_port_events returns: Err, or the event bits of the port
ClearResult(ok, event) == [ok |-> ok, event |-> event]

ClearResults ==
    {ClearResult(FALSE, PortEventKind_NONE)}
    \cup {ClearResult(TRUE, event) : event \in PortEventKinds}

\* notify_ports that signals the new flags over the unconsumed ones
notify_ports_overwrites(signalled, events) ==
    IF events = PortEventFlags_none THEN signalled ELSE Some(events)

\* controller.rs:189-205, Device::notify_ports: the value of the signal afterwards
notify_ports(signalled, events) ==
    IF events = PortEventFlags_none
    THEN signalled
    ELSE Some(IF signalled # None THEN signalled[1] \cup events ELSE events)

\* A loop body that gives up the batch when the driver fails on its port
process_event_flags_aborts(port, active, flags, cleared, status_ok) ==
    IF ~cleared.ok \/ ~status_ok
    THEN [active |-> active, flags |-> PortEventFlags_none, cached |-> FALSE]
    ELSE LET global_port_id == lookup_global_port(port)
         IN  IF cleared.event = PortEventKind_NONE
             THEN [active |-> active, flags |-> flags, cached |-> FALSE]
             ELSE [active |-> [active EXCEPT ![port] = cleared.event],
                   flags |-> set_bit(flags, global_port_id.port), cached |-> TRUE]

\* wrapper.rs:162-212, the body of process_event's loop for one port, as far as the
\* cached events and the batch go (the handlers of the power-policy device return
\* nothing and stop nothing); `cached` tells whether line 212 was reached
process_event_flags(port, active, flags, cleared, status_ok) ==
    LET global_port_id == lookup_global_port(port)
    IN  IF ~global_port_id.ok \/ ~cleared.ok \/ cleared.event = PortEventKind_NONE
        THEN [active |-> active, flags |-> flags, cached |-> FALSE]
        ELSE LET marked == set_bit(flags, global_port_id.port)
             IN  IF ~status_ok \/ ~get_power_device(port).ok
                 THEN [active |-> active, flags |-> marked, cached |-> FALSE]
                 ELSE [active |-> [active EXCEPT ![port] = cleared.event],
                       flags |-> marked, cached |-> TRUE]

\* controller::Command: a port command for a global port, or a command for the
\* controller, or a UCSI command passed through
PdCommand(kind, port, data) == [kind |-> kind, port |-> port, data |-> data]

PdCommands ==
    {PdCommand("Port", FirstGlobalPort + l, data) :
        l \in LocalPorts, data \in {"PortStatus", "GetEvent"}}
    \cup {PdCommand("Controller", NoPort, "Reset"), PdCommand("Lpm", NoPort, "none")}

\* controller::Response::Port: the status of a local port as the driver reads it, or
\* the events taken from a local port's cache, or an error
PdResponse(kind, local_port, event) == [kind |-> kind, local_port |-> local_port, event |-> event]

\* wrapper.rs:262-281: the cache afterwards and the response sent
process_port_command(active, command, driver_ok) ==
    IF command.data = "PortStatus"
    THEN [active |-> active,
          resp |-> IF driver_ok THEN PdResponse("PortStatus", 0, PortEventKind_NONE)
                   ELSE PdResponse("Err_Failed", 0, PortEventKind_NONE)]
    ELSE [active |-> [active EXCEPT ![0] = PortEventKind_NONE],
          resp |-> PdResponse("Event", 0, active[0])]

\* wrapper.rs:283-288: the cache afterwards and the responses sent
process_pd_command(active, command, driver_ok) ==
    IF command.kind = "Port"
    THEN LET r == process_port_command(active, command, driver_ok)
         IN  [active |-> r.active, responses |-> <<r.resp>>]
    ELSE [active |-> active, responses |-> <<>>]

\* Where the wrapper's task is: in select3 of process, or in the loop of
\* process_event before local port `port` with the batch `flags` (past the loop
\* when port = N)
PdSelect == [at |-> "select", port |-> 0, flags |-> PortEventFlags_none]
PdLoop(port, flags) == [at |-> "loop", port |-> port, flags |-> flags]

\* The step taken last: its inputs, whether it cached events, and what it sent
PdLast(op, port, cleared, status_ok, cached, command, responses, events) ==
    [op |-> op, port |-> port, cleared |-> cleared, status_ok |-> status_ok,
     cached |-> cached, command |-> command, responses |-> responses,
     events |-> events]

NoClear == ClearResult(FALSE, PortEventKind_NONE)
NoPdCommand == PdCommand("none", NoPort, "none")

InitPd ==
    /\ active_events = [p \in LocalPorts |-> PortEventKind_NONE]
    /\ port_events = None
    /\ pd_pc = PdSelect
    /\ pd_last = PdLast("new", NoPort, NoClear, TRUE, FALSE, NoPdCommand, <<>>, PortEventFlags_none)

\* wrapper.rs:294-304: wait_port_event completes first and process_event starts
WaitPortEvent ==
    /\ pd_pc.at = "select"
    /\ pd_pc' = PdLoop(0, PortEventFlags_none)
    /\ pd_last' = PdLast("wait_port_event", NoPort, NoClear, TRUE, FALSE, NoPdCommand, <<>>,
                         PortEventFlags_none)
    /\ UNCHANGED <<active_events, port_events>>
    /\ UNCHANGED <<ucsi_vars, service_vars, wrapper_vars, policy_vars, lock_vars, channel_vars, deadline_vars, buffer_vars, debounce_vars, guard_vars, soc_vars, plug_vars, event_vars, timer_vars>>

\* wrapper.rs:162-212: process_event handles the next port of its loop
EventLoopPort ==
    \E cleared \in ClearResults, status_ok \in BOOLEAN :
        /\ pd_pc.at = "loop" /\ pd_pc.port < N
        \* the status is read only after events were found
        /\ (~cleared.ok \/ cleared.event = PortEventKind_NONE) => status_ok
        /\ \E r \in {process_event_flags(pd_pc.port, active_events, pd_pc.flags,
                                         cleared, status_ok)} :
               /\ active_events' = r.active
               /\ pd_pc' = PdLoop(pd_pc.port + 1, r.flags)
               /\ pd_last' = PdLast("port", pd_pc.port, cleared, status_ok, r.cached,
                                    NoPdCommand, <<>>, PortEventFlags_none)
        /\ UNCHANGED port_events
        /\ UNCHANGED <<ucsi_vars, service_vars, wrapper_vars, policy_vars, lock_vars, channel_vars, deadline_vars, buffer_vars, debounce_vars, guard_vars, soc_vars, plug_vars, event_vars, timer_vars>>

\* wrapper.rs:215: past the loop process_event delivers the batch and returns
EventLoopNotify ==
    /\ pd_pc.at = "loop" /\ pd_pc.port = N
    /\ port_events' = notify_ports(port_events, pd_pc.flags)
    /\ pd_pc' = PdSelect
    /\ pd_last' = PdLast("notify_ports", NoPort, NoClear, TRUE, FALSE, NoPdCommand, <<>>,
                         pd_pc.flags)
    /\ UNCHANGED active_events
    /\ UNCHANGED <<ucsi_vars, service_vars, wrapper_vars, policy_vars, lock_vars, channel_vars, deadline_vars, buffer_vars, debounce_vars, guard_vars, soc_vars, plug_vars, event_vars, timer_vars>>

\* controller.rs:189-205: the wrapper of another controller delivers its batch
OtherWrapperNotifies ==
    \E events \in {PortEventFlags_none, {OtherGlobalPort}} :
        /\ port_events' = notify_ports(port_events, events)
        /\ pd_last' = PdLast("other_notify_ports", NoPort, NoClear, TRUE, FALSE, NoPdCommand,
                             <<>>, events)
        /\ UNCHANGED <<active_events, pd_pc>>
        /\ UNCHANGED <<ucsi_vars, service_vars, wrapper_vars, policy_vars, lock_vars, channel_vars, deadline_vars, buffer_vars, debounce_vars, guard_vars, soc_vars, plug_vars, event_vars, timer_vars>>

\* controller.rs:420-423, task.rs:97: the Service's get_unhandled_events returns
\* the signalled flags and the signal is empty again
GetUnhandledEvents ==
    /\ port_events # None
    /\ port_events' = None
    /\ pd_last' = PdLast("get_unhandled_events", NoPort, NoClear, TRUE, FALSE, NoPdCommand, <<>>,
                         port_events[1])
    /\ UNCHANGED <<active_events, pd_pc>>
    /\ UNCHANGED <<ucsi_vars, service_vars, wrapper_vars, policy_vars, lock_vars, channel_vars, deadline_vars, buffer_vars, debounce_vars, guard_vars, soc_vars, plug_vars, event_vars, timer_vars>>

\* wrapper.rs:283-288, 304: wait_command completes first and process_pd_command
\* handles the command
ProcessPdCommand ==
    \E command \in PdCommands, driver_ok \in BOOLEAN :
        /\ pd_pc.at = "select"
        \* the driver is called for PortStatus only
        /\ (command.data # "PortStatus") => driver_ok
        /\ \E r \in {process_pd_command(active_events, command, driver_ok)} :
               /\ active_events' = r.active
               /\ pd_last' = PdLast("pd_command", NoPort, NoClear, driver_ok, FALSE, command,
                                    r.responses, PortEventFlags_none)
        /\ UNCHANGED <<port_events, pd_pc>>
        /\ UNCHANGED <<ucsi_vars, service_vars, wrapper_vars, policy_vars, lock_vars, channel_vars, deadline_vars, buffer_vars, debounce_vars, guard_vars, soc_vars, plug_vars, event_vars, timer_vars>>

----------------------------------------------------------------------------
(* time-alarm-service: one Timer, its persistent storage, its signal and the *)
(* task in wait_until_wake (timer.rs). Seconds are the numbers                *)
(* 0 .. MaxSeconds, MaxSeconds standing for u32::MAX.                         *)

MaxSeconds == 2

Seconds == 0 .. MaxSeconds

\* timer.rs:51; lib.rs:131-132
NO_EXPIRATION_TIME == MaxSeconds
AlarmExpiredWakePolicy_INSTANTLY == 0
AlarmExpiredWakePolicy_NEVER == MaxSeconds

\* Option<u32> of the timer signal: None, or a number of seconds
NoDuration == -1

\* a.saturating_sub(b)
saturating_sub(a, b) == IF a > b THEN a - b ELSE 0

\* timer.rs:11-24
WakeState(kind, start, elapsed) == [kind |-> kind, start |-> start, elapsed |-> elapsed]
WakeState_Clear == WakeState("Clear", 0, 0)
WakeState_Armed == WakeState("Armed", 0, 0)
ExpiredWaitingForPolicyDelay(start, elapsed) ==
    WakeState("ExpiredWaitingForPolicyDelay", start, elapsed)
ExpiredWaitingForPowerSource(elapsed) == WakeState("ExpiredWaitingForPowerSource", 0, elapsed)
WakeState_ExpiredOrphaned == WakeState("ExpiredOrphaned", 0, 0)

\* lib.rs:258-261
TimerStatus(timer_expired, timer_triggered_wake) ==
    [timer_expired |-> timer_expired, timer_triggered_wake |-> timer_triggered_wake]
TimerStatus_default == TimerStatus(FALSE, FALSE)

\* timer.rs:68-80, PersistentStorage::set_expiration_time: the u32 written
storage_set_expiration_time(expiration_time) ==
    IF expiration_time = None THEN NO_EXPIRATION_TIME ELSE expiration_time[1]

\* timer.rs:61-66, PersistentStorage::get_expiration_time
storage_get_expiration_time(storage) ==
    IF storage = NO_EXPIRATION_TIME THEN None ELSE Some(storage)

\* What a call on the timer leaves: the timer state, and the value it signalled
\* on timer_signal, if it signalled
TimerCall(state, signalled) == [state |-> state, signalled |-> signalled]

\* timer.rs:338-342
clear_expiration_time(state) ==
    TimerCall([state EXCEPT
                   !.expiration_time_storage = storage_set_expiration_time(None),
                   !.wake_state = WakeState_Clear],
              Some(NoDuration))

\* timer.rs:164-180
set_timer_wake_policy(state, now, wake_policy) ==
    LET stored == [state EXCEPT !.wake_policy_storage = wake_policy]
    IN  IF state.wake_state.kind = "ExpiredWaitingForPolicyDelay"
        THEN TimerCall([stored EXCEPT !.wake_state = ExpiredWaitingForPolicyDelay(now, 0)],
                       Some(wake_policy))
        ELSE TimerCall(stored, None)

\* timer.rs:182-205
set_expiration_time(state, now, expiration_time) ==
    LET reset == [state EXCEPT !.timer_status = TimerStatus_default]
    IN  IF expiration_time # None
        THEN TimerCall([reset EXCEPT
                            !.expiration_time_storage =
                                storage_set_expiration_time(expiration_time),
                            !.wake_state = WakeState_Armed],
                       Some(saturating_sub(expiration_time[1], now)))
        ELSE clear_expiration_time(reset)

\* timer.rs:212-252
set_active(state, now, is_active) ==
    LET was_active == state.is_active
        set == [state EXCEPT !.is_active = is_active]
    IN  IF was_active = is_active THEN TimerCall(set, None)
        ELSE IF ~was_active
        THEN IF state.wake_state.kind = "ExpiredWaitingForPowerSource"
             THEN TimerCall(
                      [set EXCEPT !.wake_state =
                           ExpiredWaitingForPolicyDelay(now, state.wake_state.elapsed)],
                      Some(saturating_sub(state.wake_policy_storage,
                                          state.wake_state.elapsed)))
             ELSE TimerCall(set, None)
        ELSE IF state.wake_state.kind = "ExpiredWaitingForPolicyDelay"
             THEN TimerCall(
                      [set EXCEPT !.wake_state =
                           ExpiredWaitingForPowerSource(
                               state.wake_state.elapsed
                               + saturating_sub(now, state.wake_state.start))],
                      Some(NoDuration))
             ELSE TimerCall(set, None)

\* What process_expired_timer leaves: as TimerCall, with the bool returned, or
\* with the panic of its expect
ExpiredCall(state, signalled, result) ==
    [state |-> state, signalled |-> signalled, result |-> result]

\* timer.rs:288-336
process_expired_timer(state, now) ==
    IF state.wake_state.kind \notin {"Armed", "ExpiredWaitingForPolicyDelay"}
    THEN ExpiredCall(state, None, "false")
    ELSE LET expiration_time == storage_get_expiration_time(state.expiration_time_storage)
         IN  IF expiration_time = None THEN ExpiredCall(state, None, "panic")
             ELSE IF now < expiration_time[1]
             THEN ExpiredCall([state EXCEPT !.wake_state = WakeState_Armed],
                              Some(saturating_sub(expiration_time[1], now)), "false")
             ELSE LET expired == [state EXCEPT !.timer_status.timer_expired = TRUE]
                  IN  IF state.is_active
                      THEN LET c == clear_expiration_time(
                                        [expired EXCEPT
                                             !.timer_status.timer_triggered_wake = TRUE,
                                             !.wake_policy_storage =
                                                 AlarmExpiredWakePolicy_NEVER])
                           IN  ExpiredCall(c.state, c.signalled, "true")
                      ELSE IF state.wake_policy_storage = AlarmExpiredWakePolicy_NEVER
                      THEN ExpiredCall([expired EXCEPT
                                            !.wake_state = WakeState_ExpiredOrphaned],
                                       None, "false")
                      ELSE IF state.wake_state.kind = "ExpiredWaitingForPolicyDelay"
                      THEN ExpiredCall(
                               [expired EXCEPT !.wake_state =
                                    ExpiredWaitingForPowerSource(state.wake_policy_storage)],
                               None, "false")
                      ELSE ExpiredCall([expired EXCEPT !.wake_state =
                                            ExpiredWaitingForPowerSource(0)],
                                       None, "false")

\* Signal::signal: the value replaces what was signalled and not taken
signal_timer(signalled) == IF signalled = None THEN timer_signal ELSE signalled

\* Where the task of wait_until_wake is, its wait_duration, and when the
\* embassy timer of its select elapses
WakePc(at, wait_duration, deadline) ==
    [at |-> at, wait_duration |-> wait_duration, deadline |-> deadline]

\* The expiration times, policies and power sources the commands carry
ExpirationChoices == {None} \cup {Some(s) : s \in Seconds}
PolicyChoices == {AlarmExpiredWakePolicy_INSTANTLY, 1, AlarmExpiredWakePolicy_NEVER}

\* timer.rs:108-121, over a storage that holds no expiration time and the policy NEVER
InitTimer ==
    /\ alarm_timer = [expiration_time_storage |-> NO_EXPIRATION_TIME,
                      wake_policy_storage |-> AlarmExpiredWakePolicy_NEVER,
                      wake_state |-> WakeState_Clear,
                      timer_status |-> TimerStatus_default,
                      is_active |-> FALSE]
    /\ timer_signal = None
    /\ datetime = 0
    /\ wake_pc = WakePc("first_wait", NoDuration, 0)
    /\ alarm_op = "new"

Others(op) ==
    /\ alarm_op' = op
    /\ UNCHANGED <<ucsi_vars, service_vars, wrapper_vars, policy_vars, lock_vars, channel_vars, deadline_vars, buffer_vars, debounce_vars, guard_vars, soc_vars, plug_vars, event_vars, pd_vars>>

\* Timer::set_expiration_time, called for a command
SetExpirationTime ==
    \E expiration_time \in ExpirationChoices :
        \E r \in {set_expiration_time(alarm_timer, datetime, expiration_time)} :
            /\ alarm_timer' = r.state
            /\ timer_signal' = signal_timer(r.signalled)
            /\ UNCHANGED <<datetime, wake_pc>>
            /\ Others("set_expiration_time")

\* Timer::set_timer_wake_policy, called for a command
SetTimerWakePolicy ==
    \E wake_policy \in PolicyChoices :
        \E r \in {set_timer_wake_policy(alarm_timer, datetime, wake_policy)} :
            /\ alarm_timer' = r.state
            /\ timer_signal' = signal_timer(r.signalled)
            /\ UNCHANGED <<datetime, wake_pc>>
            /\ Others("set_timer_wake_policy")

\* Timer::set_active, called when the power source changes
SetActive ==
    \E is_active \in BOOLEAN :
        \E r \in {set_active(alarm_timer, datetime, is_active)} :
            /\ alarm_timer' = r.state
            /\ timer_signal' = signal_timer(r.signalled)
            /\ UNCHANGED <<datetime, wake_pc>>
            /\ Others("set_active")

\* A second passes
Second ==
    /\ datetime < MaxSeconds
    /\ datetime' = datetime + 1
    /\ UNCHANGED <<alarm_timer, timer_signal, wake_pc>>
    /\ Others("second")

\* timer.rs:255: the first timer_signal.wait() completes
WakeFirstWait ==
    /\ wake_pc.at = "first_wait" /\ timer_signal # None
    /\ wake_pc' = WakePc("match", timer_signal[1], 0)
    /\ timer_signal' = None
    /\ UNCHANGED <<alarm_timer, datetime>>
    /\ Others("wait")

\* timer.rs:259-265, 278-281: the match on wait_duration starts the select for
\* Some(seconds), and for None breaks out of the inner loop
WakeMatch ==
    /\ wake_pc.at = "match"
    /\ wake_pc' = IF wake_pc.wait_duration # NoDuration
                  THEN WakePc("select", wake_pc.wait_duration,
                              datetime + wake_pc.wait_duration)
                  ELSE WakePc("outer", wake_pc.wait_duration, 0)
    /\ UNCHANGED <<alarm_timer, timer_signal, datetime>>
    /\ Others("match")

\* timer.rs:257-258, 283: after the break the outer loop enters the inner loop
\* again, wait_duration as it is
WakeOuterLoop ==
    /\ wake_pc.at = "outer"
    /\ wake_pc' = WakePc("match", wake_pc.wait_duration, 0)
    /\ UNCHANGED <<alarm_timer, timer_signal, datetime>>
    /\ Others("loop")

\* timer.rs:267-271: the timer of the select elapses first; select polls it first
WakeTimerElapsed ==
    /\ wake_pc.at = "select" /\ datetime >= wake_pc.deadline
    /\ \E r \in {process_expired_timer(alarm_timer, datetime)} :
           /\ alarm_timer' = r.state
           /\ timer_signal' = signal_timer(r.signalled)
           /\ wake_pc' = WakePc(CASE r.result = "true" -> "returned"
                                  [] r.result = "panic" -> "panicked"
                                  [] OTHER -> "match",
                                wake_pc.wait_duration, 0)
    /\ UNCHANGED datetime
    /\ Others("expired")

\* timer.rs:273-275: the signal completes the select before the timer elapses
WakeSignalled ==
    /\ wake_pc.at = "select" /\ datetime < wake_pc.deadline /\ timer_signal # None
    /\ wake_pc' = WakePc("match", timer_signal[1], 0)
    /\ timer_signal' = None
    /\ UNCHANGED <<alarm_timer, datetime>>
    /\ Others("signalled")

Init ==
    /\ InitUcsi /\ InitService /\ InitWrapper /\ InitPolicy /\ InitLock /\ InitChannel
    /\ InitDeadline
    /\ InitBuffer
    /\ InitDebounce
    /\ InitGuard
    /\ InitSoc
    /\ InitPlug
    /\ InitEventSeen
    /\ InitPd
    /\ InitTimer

Next == UcsiCommand \/ UcsiEvent

NextService ==
    \/ ExternalExecute
    \/ ExternalReceive
    \/ WaitNextPortStatusChanged
    \/ WaitNextExternalCommand
    \/ ProcessPortStatusChanged
    \/ ProcessExternalCommand

NextWrapper ==
    \/ PolicyRequest
    \/ PolicyResponse
    \/ WaitPowerCommand
    \/ ProcessPowerCommand

NextPolicy ==
    \/ CachedSinkContract
    \/ ProcessPowerPolicyEvent

NextLock ==
    \/ UcsiCommandAwaitsController
    \/ UcsiEventAwaitsBroadcast
    \/ UnconstrainedChangeBegins
    \/ SetUnconstrainedPowerAnswers
    \/ AwaitCompletes
    \/ SetCachedPortStatus
    \/ ReaderCalls
    \/ ReaderReads

NextChannel ==
    \/ CallerCalls
    \/ CallerSends
    \/ CallerReceives
    \/ CallerTimesOut
    \/ WrapperWaitCommand
    \/ WrapperSendResponse

NextDeadline ==
    \/ CheckSinkReadyTimeout
    \/ WaitSinkReadyTimeoutPolled
    \/ SinkReadyTimeoutReached
    \/ ClockAdvances

NextBuffer ==
    \/ BorrowMut
    \/ Borrow
    \/ DropGuard

NextDebounce ==
    \/ DebouncerNew
    \/ DebounceCalled
    \/ DebounceSample

NextGuard ==
    \/ Execute
    \/ Rollback
    \/ RollbackOnce
    \/ Clear

NextSoc ==
    \/ SetPowerStateCalled
    \/ SocLockAcquired
    \/ SetPowerStateReturns

NextPlug ==
    \/ ProcessEventPort
    \/ NotifyPorts
    \/ PolicyTransition

NextEvent == UcsiCommandSeen \/ UcsiEventSeen

NextPd ==
    \/ WaitPortEvent
    \/ EventLoopPort
    \/ EventLoopNotify
    \/ OtherWrapperNotifies
    \/ GetUnhandledEvents
    \/ ProcessPdCommand

WakeStep ==
    \/ WakeFirstWait
    \/ WakeMatch
    \/ WakeOuterLoop
    \/ WakeTimerElapsed
    \/ WakeSignalled

NextTimer ==
    \/ SetExpirationTime
    \/ SetTimerWakePolicy
    \/ SetActive
    \/ Second
    \/ WakeStep

vars == <<ucsi_vars, service_vars, wrapper_vars, rest_vars>>

Spec == Init /\ [][Next]_vars

SpecService == Init /\ [][NextService]_vars

\* process_next_event (mod.rs:244-247) runs process_event on every event wait_next returns
SpecServiceFair ==
    SpecService /\ WF_vars(ProcessPortStatusChanged) /\ WF_vars(ProcessExternalCommand)

SpecWrapper == Init /\ [][NextWrapper]_vars

SpecPolicy == Init /\ [][NextPolicy]_vars

SpecLock == Init /\ [][NextLock]_vars

SpecChannel == Init /\ [][NextChannel]_vars

SpecDeadline == Init /\ [][NextDeadline]_vars

\* Time passes, the wrapper's task polls wait_sink_ready_timeout again every time it
\* goes back to waiting for its next event, and other events are not ready at every
\* one of these polls for ever: a timer that is reached again and again is served
SpecDeadlineFair ==
    /\ SpecDeadline
    /\ WF_vars(ClockAdvances)
    /\ WF_vars(WaitSinkReadyTimeoutPolled)
    /\ SF_vars(SinkReadyTimeoutReached)

\* process() runs process_power_command on what wait_power_command returned
SpecWrapperFair == SpecWrapper /\ WF_vars(ProcessPowerCommand)

SpecBuffer == Init /\ [][NextBuffer]_vars

SpecDebounce == Init /\ [][NextDebounce]_vars

SpecGuard == Init /\ [][NextGuard]_vars

SpecSoc == Init /\ [][NextSoc]_vars

SpecPlug == Init /\ [][NextPlug]_vars

SpecEvent == Init /\ [][NextEvent]_vars

SpecPd == Init /\ [][NextPd]_vars

SpecTimer == Init /\ [][NextTimer]_vars

\* The task in wait_until_wake goes on whenever it can: its steps wait for nothing
\* but the futures their guards name
SpecTimerFair == SpecTimer /\ WF_vars(WakeStep)

----------------------------------------------------------------------------
(* Properties of the UCSI state *)

\* The ports the cursor has still to visit in this pass
remaining(opt_iter) ==
    IF opt_iter = None THEN {}
    ELSE {p \in opt_iter[1].flags : p >= opt_iter[1].index}

\* The ports with a connector change the host has not acknowledged
unacknowledged(state) == state.pending_ports \cup remaining(state.pending_ports_iter)

\* The port currently indicated to the host
indicated(state) == peek(state.pending_ports_iter)

after_command == last.op = "command"

\* C1 as stated: the cursor pending_ports_iter is Some if and only if the bitmap
\* pending_ports is non-empty.
C1_CursorIffBitmap ==
    (ucsi.pending_ports_iter # None) <=> ~is_none(ucsi.pending_ports)

\* C1 amended: the cursor is Some if and only if some port is unacknowledged (in the
\* cursor's own snapshot or in pending_ports); a Some cursor always has a current
\* port, and pending_ports is non-empty only while the cursor is Some.
C1_CursorIffUnacknowledged ==
    /\ (ucsi.pending_ports_iter # None) <=> (unacknowledged(ucsi) # {})
    /\ (ucsi.pending_ports_iter # None) => (indicated(ucsi) # NoPort)
    /\ ~is_none(ucsi.pending_ports) => (ucsi.pending_ports_iter # None)

\* C1 witness: a round robin is running on a snapshot while pending_ports is empty,
\* after an acknowledgement advanced it.
C1_Witness ==
    /\ last.outcome = "AckComplete" /\ last.ack_ci
    /\ ucsi.pending_ports_iter # None
    /\ is_none(ucsi.pending_ports)

\* C2: in every response of process_ucsi_command the CCI connector_change field is
\* non-zero if and only if some port is pending (unacknowledged) after the operation.
C2_ConnectorChangeIffPending ==
    after_command => ((response.cci.connector_change # 0) <=> (unacknowledged(ucsi) # {}))

\* C3, hypothesis: the host acknowledges every indicated connector change, that is,
\* if a cursor stays active, connector-change acknowledgements keep being processed.
HostAcknowledges ==
    \/ []<>(ucsi.pending_ports_iter = None)
    \/ ([]<>(ack_parity = 0) /\ []<>(ack_parity = 1))

\* C3, the step: acknowledging the indicated port advances to the next port of the
\* pass, or restarts the round robin on the ports that became pending meanwhile, or
\* ends it when none is left.
AckAdvancesOrRestarts ==
    (ack_parity' # ack_parity /\ indicated(ucsi) # NoPort) =>
        LET current == indicated(ucsi)
            rest == remaining(ucsi.pending_ports_iter) \ {current}
            left == ucsi.pending_ports \ {current}
        IN  IF rest # {}
            THEN /\ indicated(ucsi') = Min(rest)
                 /\ remaining(ucsi'.pending_ports_iter) = rest
                 /\ ucsi'.pending_ports = left
            ELSE IF left # {}
                 THEN /\ indicated(ucsi') = Min(left)
                      /\ remaining(ucsi'.pending_ports_iter) = left
                      /\ ucsi'.pending_ports = {}
                 ELSE ucsi'.pending_ports_iter = None /\ ucsi'.pending_ports = {}

\* C3: acknowledging the indicated port advances or restarts the round robin, and
\* under a host that acknowledges every indicated change every pending port is
\* eventually indicated.
C3_RoundRobinVisitsAll ==
    /\ [][AckAdvancesOrRestarts]_vars
    /\ HostAcknowledges =>
           \A p \in Ports : (p \in unacknowledged(ucsi)) ~> (indicated(ucsi) = p)

\* C3 witness: an acknowledgement restarted the round robin on a port that became
\* pending during the pass.
C3_Witness ==
    /\ last.outcome = "AckComplete" /\ last.ack_ci
    /\ ucsi.pending_ports_iter # None
    /\ ucsi.pending_ports_iter[1].index = 0
    /\ broadcast # None

\* C7: a command the PPM machine rejects gets an error CCI with Err(Failed), runs no
\* handler, broadcasts nothing and leaves the whole UCSI state as it was.
C7_RejectedCommandHasNoEffect ==
    [][(last'.op = "command" /\ last'.outcome = "InvalidTransition") =>
          /\ ucsi' = ucsi
          /\ response'.cci.error
          /\ response'.data = "Err_Failed"
          /\ last'.handlers = 0
          /\ broadcast' = None]_vars

\* C7 witness: a command was rejected while a round robin was running.
C7_Witness ==
    /\ after_command /\ last.outcome = "InvalidTransition"
    /\ ucsi.pending_ports_iter # None
    /\ ucsi.notifications_enabled # {}

Range(seq) == {seq[i] : i \in 1 .. Len(seq)}

\* C8: when the machine outputs ExecuteCommand the call runs one handler, feeds
\* CommandComplete in the same call and returns cmd_complete; the machine is never
\* left in ProcessingCommand.
C8_ExecuteCompletesInSameCall ==
    /\ ucsi.ppm_state_machine # "ProcessingCommand"
    /\ (after_command /\ "ExecuteCommand" \in Range(last.outputs)) =>
          /\ last.handlers = 1
          /\ last.fed = <<"Command", "CommandComplete">>
          /\ last.outputs = <<"ExecuteCommand", "OpmNotifyCommandComplete">>
          /\ response.cci.cmd_complete
          /\ ucsi.ppm_state_machine = "WaitForCommandCompleteAck"

\* C8 witness: a delegated LPM command was executed and completed.
C8_Witness ==
    /\ after_command /\ last.cmd_op = "GetConnectorStatus"
    /\ "ExecuteCommand" \in Range(last.outputs)

\* C9: in every response the CCI error bit is set if and only if the data is an error.
C9_ErrorBitIffErrData ==
    after_command => (response.cci.error <=> is_err(response.data))

\* C9 witness: a command completed with a failed handler.
C9_Witness ==
    /\ after_command /\ last.outcome = "OpmNotifyCommandComplete"
    /\ is_err(response.data)

\* The calls of the model that run to completion from the given state
completes(state, c) ==
    process_ucsi_command(state, c[1], config, c[2]).outcome = "OpmNotifyCommandComplete"

with_mask(state, mask) == [state EXCEPT !.notifications_enabled = mask]

\* C10 as stated: the response of a completed command, notify_opm included, is the
\* same whatever the NotificationEnable mask was.
C10_ResponseIndependentOfMask ==
    \A c \in UcsiCalls, mask \in MaskChoices :
        (completes(ucsi, c) /\ completes(with_mask(ucsi, mask), c)) =>
            process_ucsi_command(ucsi, c[1], config, c[2]).response
                = process_ucsi_command(with_mask(ucsi, mask), c[1], config, c[2]).response

\* C10 amended: the CCI and the data of a completed command do not depend on the
\* NotificationEnable mask, and notify_opm is the mask's cmd_complete bit as the
\* handler left it.
C10_OnlyNotifyFollowsCmdComplete ==
    /\ (after_command /\ last.outcome = "OpmNotifyCommandComplete") =>
          response.notify_opm = ("cmd_complete" \in ucsi.notifications_enabled)
    /\ \A c \in UcsiCalls, mask \in MaskChoices :
          (completes(ucsi, c) /\ completes(with_mask(ucsi, mask), c)) =>
              LET a == process_ucsi_command(ucsi, c[1], config, c[2]).response
                  b == process_ucsi_command(with_mask(ucsi, mask), c[1], config, c[2]).response
              IN  a.cci = b.cci /\ a.data = b.data

\* C10 witness: GetConnectorStatus completed without notifying the host, cmd_complete
\* being masked while another category is enabled.
C10_Witness ==
    /\ after_command /\ last.outcome = "OpmNotifyCommandComplete"
    /\ last.cmd_op = "GetConnectorStatus"
    /\ ~response.notify_opm
    /\ ucsi.notifications_enabled # {}

----------------------------------------------------------------------------
(* Properties of the Service's cache and external commands *)

\* C4: for every cached port p (p < MAX_SUPPORTED_PORTS) the cached PortStatus is
\* the status carried by the PortStatusChanged event processed last for p
C4_CacheIsLastProcessedStatus ==
    \A p \in CachedPorts : port_status[p] = processed[p]

\* An event for the last cached port that left the connection as it was (no debug
\* accessory message for a connected debug accessory) and is in the cache
C4_Witness ==
    /\ svc_done # None
    /\ svc_done[1].kind = "PortStatusChanged"
    /\ svc_done[1].port = MAX_SUPPORTED_PORTS - 1
    /\ svc_done[1].status = PortStatus(TRUE, TRUE)
    /\ debug_msg = None
    /\ svc_result = "Ok"
    /\ port_status[MAX_SUPPORTED_PORTS - 1] = PortStatus(TRUE, TRUE)

\* The request of a waiting requester is in the channel or held as an event
in_flight ==
    \/ ext_channel # None
    \/ svc_event # None /\ svc_event[1].kind = "ExternalCommand"

\* The Service holds the request as an ExternalCommand event
taken == svc_event # None /\ svc_event[1].kind = "ExternalCommand"

\* One response of the command's kind is in the request's slot
answered ==
    /\ Len(ext_responses) = 1
    /\ ext_client # None => ext_responses[1].kind = ext_client[1].kind

\* The slot holds nothing while the request is in flight and one response after
OneResponsePerRequest ==
    /\ Len(ext_responses) <= 1
    /\ ext_client # None => (in_flight <=> ext_responses = <<>>)
    /\ ext_client # None /\ ~in_flight => answered

\* C5: every external command taken as an ExternalCommand event gets exactly one
\* response of its kind in its own slot, whatever the sub-handler returned
C5_TakenCommandGetsOneResponse ==
    /\ []OneResponsePerRequest
    /\ taken ~> answered

\* The requester waits and its slot holds the error response of a sub-handler
C5_Witness ==
    /\ ext_client # None
    /\ ext_client[1].kind = "Controller"
    /\ Len(ext_responses) = 1
    /\ ext_responses[1].kind = "Controller"
    /\ is_err(ext_responses[1].result)

----------------------------------------------------------------------------
(* Properties of the ControllerWrapper's power commands *)

\* The request of device p is in its slot or held by the wrapper
power_in_flight(p) ==
    \/ power_request[p] # None
    \/ power_command # None /\ power_command[1].port = p

\* wait_power_command returned the request of device p
power_received(p) == power_command # None /\ power_command[1].port = p

\* The one response of device p is Failed when the driver call failed, else Complete
power_answered(p) ==
    /\ Len(power_response[p]) = 1
    /\ power_response[p][1] = IF power_driver[p] \notin {"none", "Ok"}
                              THEN "Err_Failed" ELSE "Ok_Complete"

\* Nothing is sent while the request is in flight, one response after it, and
\* the driver is called for ConnectConsumer and Disconnect only
OneResponsePerPowerRequest ==
    \A p \in LocalPorts :
        /\ Len(power_response[p]) <= 1
        /\ power_client[p] # None =>
              /\ power_in_flight(p) <=> power_response[p] = <<>>
              /\ ~power_in_flight(p) => power_answered(p)
              /\ ~power_in_flight(p) =>
                    (power_driver[p] # "none"
                        <=> power_client[p][1] \in {"ConnectConsumer", "Disconnect"})

\* C6: every power-policy request received on one of the N devices gets exactly
\* one response on that device: Failed when the sink-path driver call failed,
\* Complete otherwise
C6_PowerRequestGetsOneResponse ==
    /\ []OneResponsePerPowerRequest
    /\ \A p \in LocalPorts : power_received(p) ~> power_answered(p)

\* The last device got Failed for a Disconnect whose driver call failed, while
\* the first device's request is still waiting
C6_Witness ==
    /\ power_client[N - 1] = Some("Disconnect")
    /\ power_response[N - 1] = <<"Err_Failed">>
    /\ power_driver[N - 1] = "Err_Bus"
    /\ power_client[0] # None

----------------------------------------------------------------------------
(* Further properties of the UCSI state *)

\* The last call processed an AckCcCi with connector_change in the AckComplete arm
\* while no round robin was active
acked_without_pending ==
    /\ after_command
    /\ last.cmd_op = "AckCcCi" /\ last.ack_ci
    /\ last.outcome = "AckComplete"
    /\ ~last.had_cursor

\* C11: an AckCcCi with connector_change processed while no connector change is
\* pending does not fail: the cursor is None afterwards, the CCI has
\* connector_change = 0 and no error, the data is no error, and ack_command is set
\* exactly when the acknowledgement also asked for command_complete
C11_AckWithoutPendingIsGraceful ==
    acked_without_pending =>
        /\ ucsi.pending_ports_iter = None
        /\ response.cci.connector_change = 0
        /\ ~response.cci.error
        /\ ~is_err(response.data)
        /\ response.cci.ack_command = last.ack_cc

\* An acknowledgement of a connector change alone, with nothing pending
C11_Witness ==
    /\ acked_without_pending
    /\ ~last.ack_cc
    /\ ~response.cci.ack_command

\* A port event is processed after SetNotificationEnable and then a PPM reset, with
\* no SetNotificationEnable executed since
event_after_reset == last.phase = "reset" /\ last'.op = "event"

\* C12 as stated: the event is queued (its port is pending afterwards) and the
\* notification, if any, has notify_opm false
C12_EventAfterResetIsQueued ==
    [][event_after_reset =>
          /\ last'.port \in unacknowledged(ucsi')
          /\ broadcast' # None => ~broadcast'[1].notify_opm]_vars

\* C12: after SetNotificationEnable and then a PPM reset a connector event is not
\* queued: the bitmap and the cursor stay as they were and nothing is broadcast
\* (so notify_opm stays false) until a SetNotificationEnable is executed again
C12_EventAfterResetIsDropped ==
    [][event_after_reset => (ucsi' = ucsi /\ broadcast' = None)]_vars

\* A plug event processed after the reset left the port not pending
C12_Witness ==
    /\ last.op = "event"
    /\ last.phase = "reset"
    /\ last.port \notin unacknowledged(ucsi)
    /\ broadcast = None

\* The step executed a SetNotificationEnable command
set_notification_enable_step ==
    /\ last'.op = "command" /\ last'.cmd_op = "SetNotificationEnable"
    /\ "ExecuteCommand" \in Range(last'.outputs)

\* The step processed a PPM reset
ppm_reset_step == last'.op = "command" /\ last'.outcome = "ResetComplete"

\* C13: NotificationEnable changes only when a SetNotificationEnable is executed
\* (it becomes the given mask) or on a PPM reset (it becomes the default mask); no
\* other command, acknowledgement or port event changes it
C13_NotificationEnableFrame ==
    [][/\ ucsi'.notifications_enabled # ucsi.notifications_enabled =>
              (set_notification_enable_step \/ ppm_reset_step)
       /\ set_notification_enable_step => ucsi'.notifications_enabled = last'.mask
       /\ ppm_reset_step => ucsi'.notifications_enabled = NotificationEnable_default]_vars

\* GetCapability was executed and completed while a non-empty mask was enabled
C13_Witness ==
    /\ after_command
    /\ last.cmd_op = "GetCapability"
    /\ last.outcome = "OpmNotifyCommandComplete"
    /\ ucsi.notifications_enabled # NotificationEnable_default

----------------------------------------------------------------------------
(* Further properties of the Service *)

\* The step processes the PortStatusChanged event the Service holds
port_event_step ==
    /\ svc_event # None
    /\ svc_event[1].kind = "PortStatusChanged"
    /\ svc_event' = None

\* C14: while a port status change is processed a debug-accessory message is sent
\* if and only if the new status and the cached one differ in connectedness and one
\* of the two shows a debug accessory; its connected flag is the new connectedness
C14_DebugAccessoryMessage ==
    [][port_event_step =>
          IF svc_event[1].port \in CachedPorts
          THEN LET old == port_status[svc_event[1].port]
                   new == svc_event[1].status
               IN  /\ debug_msg' # None <=>
                         /\ new.connection_present # old.connection_present
                         /\ new.debug_connection \/ old.debug_connection
                   /\ debug_msg' # None =>
                         debug_msg'[1] = [port |-> svc_event[1].port,
                                          connected |-> new.connection_present]
          ELSE debug_msg' = None]_vars

\* A debug accessory was disconnected: the message is sent for a new status that
\* shows no debug accessory
C14_Witness ==
    /\ svc_done # None
    /\ svc_done[1].kind = "PortStatusChanged"
    /\ svc_done[1].status = PortStatus_default
    /\ debug_msg = Some([port |-> svc_done[1].port, connected |-> FALSE])

----------------------------------------------------------------------------
(* Properties of the power-policy events *)

\* What the ports are to hold after the event: constrained on loss of unconstrained
\* power; unconstrained when several consumers are available or the one available is
\* none of the Service's ports; else that port constrained and the others unconstrained
marked_as_stated(p) ==
    LET state == policy_event.state
    IN  CASE ~state.unconstrained -> FALSE
          [] state.unconstrained /\ state.available > 1 -> TRUE
          [] state.unconstrained /\ state.available = 1 /\ policy_event.own # NoPort ->
                p # policy_event.own
          [] OTHER -> TRUE

----------------------------------------------------------------------------
(* Properties of the state mutex *)

\* C17: the Service's task is never suspended in an await while it holds the state
\* mutex
C17_NoLockAcrossAwait ==
    state_lock = "service" => svc_pc.at = "idle"

----------------------------------------------------------------------------
(* Properties of the controller's channels *)

\* C18: a caller of send_command that gets a response gets the one made for its own
\* command, also after an earlier command was abandoned on timeout
C18_CallerGetsOwnResponse ==
    (caller_got # None /\ ~caller_got[1].timeout) =>
        caller_got[1].resp = caller_got[1].cmd

----------------------------------------------------------------------------
(* Properties of the sink-ready deadline *)

\* The step is check_sink_ready_timeout for port p
check_step(p) == deadline_last'.op = "check" /\ deadline_last'.port = p

\* The step is wait_sink_ready_timeout returning port p
reached_step(p) == deadline_last'.op = "reached" /\ deadline_last'.port = p

\* The report being processed is a new consumer contract without sink-ready
starts_deadline(l) == l.new_contract /\ ~l.sink_ready

\* A report of that port cleared the deadline, or the deadline fired for it
cleared_by_report(p) ==
    /\ deadline_last.op = "check" /\ deadline_last.port = p
    /\ ~starts_deadline(deadline_last)
    /\ \/ ~is_connected(deadline_last.status)
       \/ ~deadline_last.status.available_sink_contract
       \/ deadline_last.sink_ready

fired(p) ==
    /\ deadline_last.op = "reached" /\ deadline_last.port = p
    /\ deadline_last.result = "LocalPortId"

\* A started deadline is the acceptance time plus the timeout of the status' power range
deadline_is_acceptance_plus_timeout ==
    \A p \in LocalPorts :
        (check_step(p) /\ starts_deadline(deadline_last')) =>
            sink_ready_deadline'[p] = Some(clock + timeout_ms(deadline_last'.status))

\* wait_sink_ready_timeout returns a port only at or after its deadline, clears that
\* deadline and no other, and returns a port, not a PD error
firing_is_due_and_clears ==
    \A p \in LocalPorts :
        reached_step(p) =>
            /\ sink_ready_deadline[p] # None
            /\ clock >= sink_ready_deadline[p][1]
            /\ sink_ready_deadline' = [sink_ready_deadline EXCEPT ![p] = None]
            /\ deadline_last'.result = "LocalPortId"

set_only_by_new_contract(p) ==
    (sink_ready_deadline'[p] # None /\ sink_ready_deadline'[p] # sink_ready_deadline[p]) =>
        (check_step(p) /\ starts_deadline(deadline_last'))

\* C20 as stated: a deadline is set only by a new consumer contract without sink-ready;
\* once set it is unset only by a report of disconnection, a report of sink-ready or
\* its firing; and after each of these it is unset
C20_DeadlineSetAndCleared ==
    [][\A p \in LocalPorts :
        /\ set_only_by_new_contract(p)
        /\ (sink_ready_deadline[p] # None /\ sink_ready_deadline'[p] = None) =>
               \/ reached_step(p)
               \/ /\ check_step(p)
                  /\ ~is_connected(deadline_last'.status) \/ deadline_last'.sink_ready
        /\ ( \/ reached_step(p)
             \/ /\ check_step(p) /\ ~starts_deadline(deadline_last')
                /\ ~is_connected(deadline_last'.status) \/ deadline_last'.sink_ready ) =>
               sink_ready_deadline'[p] = None]_vars

\* C20, amended: a report that shows no available sink contract unsets the deadline too
C20_DeadlineSetAndClearedWithContractLoss ==
    [][\A p \in LocalPorts :
        /\ set_only_by_new_contract(p)
        /\ (sink_ready_deadline[p] # None /\ sink_ready_deadline'[p] = None) =>
               \/ reached_step(p)
               \/ /\ check_step(p) /\ ~starts_deadline(deadline_last')
                  /\ \/ ~is_connected(deadline_last'.status)
                     \/ ~deadline_last'.status.available_sink_contract
                     \/ deadline_last'.sink_ready
        /\ ( \/ reached_step(p)
             \/ /\ check_step(p) /\ ~starts_deadline(deadline_last')
                /\ \/ ~is_connected(deadline_last'.status)
                   \/ ~deadline_last'.status.available_sink_contract
                   \/ deadline_last'.sink_ready ) =>
               sink_ready_deadline'[p] = None]_vars

\* A connected port without sink-ready lost its sink contract, and its deadline is unset
C20_Witness ==
    /\ deadline_last.op = "check" /\ deadline_last.port = 0
    /\ is_connected(deadline_last.status)
    /\ ~deadline_last.status.available_sink_contract
    /\ ~deadline_last.sink_ready /\ ~deadline_last.new_contract
    /\ sink_ready_deadline[0] = None
    /\ sink_ready_deadline[N - 1] # None

DeadlineTypeOK ==
    /\ clock \in 0 .. MaxTime
    /\ \A p \in LocalPorts :
           sink_ready_deadline[p] # None => sink_ready_deadline[p][1] \in 0 .. MaxTime

----------------------------------------------------------------------------
(* Properties of the Buffer *)

\* The status of a buffer says what guards are alive: none, one AccessMut and no
\* Access, or k >= 1 Access and no AccessMut
borrow_state_exact(b) ==
    \/ /\ buffer_status[b] = Status_None
       /\ AccessMutGuards(b) = {} /\ AccessGuards(b) = {}
    \/ /\ buffer_status[b] = Status_Mutable
       /\ Cardinality(AccessMutGuards(b)) = 1 /\ AccessGuards(b) = {}
    \/ /\ buffer_status[b].kind = "Immutable"
       /\ buffer_status[b].count >= 1
       /\ Cardinality(AccessGuards(b)) = buffer_status[b].count
       /\ AccessMutGuards(b) = {}

\* A borrow panics when an AccessMut is alive, or when it is mutable and an Access is
\* alive; a mutable borrow of an unborrowed buffer succeeds; no drop of a guard panics
borrow_panics_when_violating ==
    \A b \in Buffers :
        /\ (buffer_last'.op = "borrow" /\ buffer_last'.buffer = b) =>
               /\ AccessMutGuards(b) # {} => buffer_last'.panic
               /\ (buffer_last'.mutable /\ AccessGuards(b) # {}) => buffer_last'.panic
               /\ buffer_last'.panic => UNCHANGED <<buffer_status, guards>>
               /\ (buffer_last'.mutable /\ AccessMutGuards(b) = {} /\ AccessGuards(b) = {}) =>
                      ~buffer_last'.panic /\ buffer_status'[b] = Status_Mutable
        /\ (buffer_last'.op = "drop" /\ buffer_last'.buffer = b) => ~buffer_last'.panic

\* C21: a Buffer is unborrowed, mutably borrowed by one guard, or immutably borrowed by
\* k >= 1 guards; a borrow that would break this panics; once every guard is dropped
\* the buffer is unborrowed and a mutable borrow succeeds
C21_BorrowStates ==
    /\ [](\A b \in Buffers : borrow_state_exact(b))
    /\ [][borrow_panics_when_violating]_vars

\* A mutable borrow of a buffer with two live Access guards panicked and left the
\* buffer as it was
C21_Witness ==
    /\ buffer_last = BufferLast("borrow", 1, TRUE, TRUE)
    /\ buffer_status[1] = Status_Immutable(2)
    /\ buffer_status[2] = Status_None

----------------------------------------------------------------------------
(* Properties of the Debouncer *)

\* The reported state becomes pressed only on the update that brings the integrator
\* to the threshold, and released only on the update that brings it back to 0
changes_only_at_extremes ==
    /\ (debouncer'.pressed /\ ~debouncer.pressed) =>
           /\ debouncer'.integrator = debouncer.threshold
           /\ debouncer.integrator # debouncer.threshold
    /\ (~debouncer'.pressed /\ debouncer.pressed) =>
           /\ debouncer'.integrator = 0
           /\ debouncer.integrator # 0

\* debounce returns exactly on the sample that changes the reported state, and returns
\* the new state
returns_on_change ==
    debounce_last'.op = "sample" =>
        /\ debounce_last'.returned # None <=> debouncer'.pressed # debouncer.pressed
        /\ debounce_last'.returned # None =>
               debounce_last'.returned = Some(debouncer'.pressed)

\* C22: the reported state changes to pressed only on the update at which the
\* integrator reaches the threshold and to released only on the update at which it
\* returns to 0; debounce returns only when the reported state has changed, with the
\* new state
C22_DebouncedStateChanges ==
    [][changes_only_at_extremes /\ returns_on_change]_vars

\* The same for a Debouncer whose threshold is at least 1
C22_DebouncedStateChangesPositiveThreshold ==
    [][debouncer.threshold >= 1 => changes_only_at_extremes /\ returns_on_change]_vars

----------------------------------------------------------------------------
(* Properties of the PowerGuard *)

\* The step is an execute whose regulator operation failed
execute_failed == guard_last'.op = "execute" /\ ~guard_last'.ok

\* The i-th undo call is the inverse of the i-th operation from the top of the stack
undoes_from_top(calls, i) ==
    LET op == stk[Len(stk) + 1 - i]
    IN  /\ calls[i].r = op.r
        /\ calls[i].call = (IF op.kind = "Enable" THEN "disable" ELSE "enable")

\* C23: when the operation passed to execute fails, the recorded operations are undone
\* in reverse order of entry, Enable by disable and Disable by enable, and removed;
\* execute returns OpFailure with the guard empty when every undo succeeds and
\* RollbackFailure when an undo fails
C23_FailedExecuteRollsBack ==
    [][execute_failed =>
        LET calls == guard_last'.calls
        IN  /\ Len(calls) <= Len(stk)
            /\ \A i \in 1 .. Len(calls) : undoes_from_top(calls, i)
            /\ stk' = SubSeq(stk, 1, Len(stk) - Len(calls))
            /\ \A i \in 1 .. (Len(calls) - 1) : calls[i].ok
            /\ IF \A i \in 1 .. Len(calls) : calls[i].ok
               THEN /\ Len(calls) = Len(stk)
                    /\ stk' = <<>>
                    /\ guard_last'.result = "OpFailure"
               ELSE guard_last'.result = "RollbackFailure"]_vars

\* A failed execute undid two operations, last entered first, and left the guard empty
C23_Witness ==
    /\ guard_last.op = "execute" /\ ~guard_last.ok
    /\ guard_last.result = "OpFailure"
    /\ Len(guard_last.calls) = 2
    /\ guard_last.calls[1].call # guard_last.calls[2].call
    /\ stk = <<>>

----------------------------------------------------------------------------
(* Properties of the SoC manager *)

\* The valid transitions: S0 to a sleeping state, or a sleeping state to S0
valid_transition(current, target) ==
    \/ current = "S0" /\ target \in {"S0ix", "S3", "S4", "S5"}
    \/ current \in {"S0ix", "S3", "S4", "S5"} /\ target = "S0"

\* C24: set_power_state(target) runs a power sequence and publishes target only when
\* the pair (current state, target) is a valid transition; for any other pair it returns
\* InvalidStateTransition and runs nothing; a failing sequence gives PowerSequence; in
\* both error cases the published state is unchanged
C24_OnlyValidTransitions ==
    [][soc_last'.op = "return" =>
        /\ soc_last'.sequence # "none" <=> valid_transition(power_state, soc_last'.state)
        /\ soc_last'.sequence = "none" => soc_last'.result = "InvalidStateTransition"
        /\ soc_last'.result \in {"InvalidStateTransition", "PowerSequence"} =>
               power_state' = power_state
        /\ soc_last'.result = "Ok" =>
               /\ valid_transition(power_state, soc_last'.state)
               /\ power_state' = soc_last'.state]_vars

----------------------------------------------------------------------------
(* Properties of the Service's handling of port events *)

\* The step is process_event for a PortStatusChanged of a UCSI port whose status shows
\* a plug event: the connection differs from the cached one
plug_event_step ==
    /\ svc_event # None /\ svc_event' = None
    /\ svc_event[1].kind = "PortStatusChanged"
    /\ svc_event[1].port \in Ports
    /\ is_connected(svc_event[1].status) # is_connected(port_status[svc_event[1].port])

\* C25: a PortStatusChanged event handled by process_event is fed into
\* process_ucsi_event for the same port and event, so a plug event received while
\* connect_change is enabled makes the port pending
C25_PortEventFedToUcsi ==
    [][plug_event_step =>
        /\ ucsi' = process_ucsi_event(ucsi, svc_event[1].port,
                                      {"plug_inserted_or_removed"}).state
        /\ "connect_change" \in ucsi.notifications_enabled =>
               svc_event[1].port \in ucsi'.pending_ports]_vars

----------------------------------------------------------------------------
(* Properties of process_ucsi_event *)

\* A step of process_ucsi_event
event_step == last'.op = "event"

\* The categories of the step's event that the notification mask lets through
masked_event ==
    filter_enabled(to_connector_status_change(event_seen'), ucsi.notifications_enabled)

\* C26: process_ucsi_event marks the event's port pending if and only if the event's
\* ConnectorStatusChange, masked by the current NotificationEnable, is non-empty: then
\* the port joins the pending ports (the bitmap while a round robin is active, the
\* snapshot of the round robin this call starts otherwise); an event whose categories
\* are all masked leaves the bitmap, and the whole UCSI state, unchanged.
C26_PendingIffEnabled ==
    [][event_step =>
          /\ ~is_none(masked_event) =>
                 /\ last'.port \in unacknowledged(ucsi')
                 /\ unacknowledged(ucsi') = unacknowledged(ucsi) \cup {last'.port}
                 /\ (ucsi.pending_ports_iter # None) =>
                        ucsi'.pending_ports = pend_port(ucsi.pending_ports, last'.port)
          /\ is_none(masked_event) =>
                 /\ ucsi'.pending_ports = ucsi.pending_ports
                 /\ ucsi' = ucsi]_vars

\* C26 witness: with a round robin active on another port, a contract event that the
\* mask lets through has set its port in the bitmap.
C26_Witness ==
    /\ last.op = "event" /\ last.had_cursor
    /\ event_seen = {"new_power_contract_as_consumer"}
    /\ "negotiated_power_level_change" \in ucsi.notifications_enabled
    /\ last.port \in ucsi.pending_ports
    /\ indicated(ucsi) \notin {NoPort, last.port}

\* C27, the start: an event starts a round robin, or broadcasts a notification, only
\* when no round robin is active and its port just became pending; the notification
\* names that port and its notify_opm is whether connect_change is enabled.
starts_only_when_idle ==
    event_step =>
        LET started == ucsi'.pending_ports_iter # ucsi.pending_ports_iter
            start_case == ucsi.pending_ports_iter = None /\ ~is_none(masked_event)
        IN  /\ (started \/ broadcast' # None) => start_case
            /\ start_case =>
                   /\ ucsi'.pending_ports_iter # None
                   /\ indicated(ucsi') = last'.port
                   /\ broadcast' = UcsiCci(last'.port,
                                           "connect_change" \in ucsi.notifications_enabled)

\* C27, during a round robin: an event causes no notification and leaves the cursor
\* and the port indicated to the host as they are.
silent_while_active ==
    (event_step /\ ucsi.pending_ports_iter # None) =>
        /\ broadcast' = None
        /\ ucsi'.pending_ports_iter = ucsi.pending_ports_iter
        /\ indicated(ucsi') = indicated(ucsi)

\* C27, surfacing: while a port is indicated, another port becomes the indicated one
\* only by a completed acknowledgement of the connector change.
surfaces_on_ack ==
    (indicated(ucsi) # NoPort /\ indicated(ucsi') \notin {NoPort, indicated(ucsi)}) =>
        /\ last'.op = "command" /\ last'.cmd_op = "AckCcCi" /\ last'.ack_ci
        /\ last'.outcome = "AckComplete"

\* C27: a round robin is started and a notification broadcast, with notify_opm equal
\* to whether connect_change is enabled, only when none is active and a port just
\* became pending; while one is active, events on other ports cause no notification
\* and those ports surface only when the current one is acknowledged.
C27_RoundRobinStart ==
    [][starts_only_when_idle /\ silent_while_active /\ surfaces_on_ack]_vars

\* C27 witness: a contract event, with connect_change disabled, started a round robin
\* and its notification does not notify the OPM.
C27_Witness ==
    /\ last.op = "event" /\ ~last.had_cursor
    /\ event_seen = {"new_power_contract_as_consumer"}
    /\ broadcast = UcsiCci(last.port, FALSE)
    /\ indicated(ucsi) = last.port

\* C27 witness of the silent case: an event on another port during a round robin
\* was queued without a notification, and an acknowledgement then surfaced it.
C27_SurfacedWitness ==
    /\ last.op = "command" /\ last.outcome = "AckComplete" /\ last.ack_ci
    /\ last.had_cursor
    /\ broadcast # None
    /\ indicated(ucsi) # NoPort

----------------------------------------------------------------------------
(* Properties of the wrapper's handling of port events *)

\* A step of process_event's loop body
port_step == event_pc' = event_pc + 1

\* What the plug handler of the step did, from the state the device was in
plug_handled ==
    process_plug_event(power_devices[event_pc], port_last'.status, port_last'.fault)

\* Whether the step ran the plug handler, and the contract handler
plug_event_handled ==
    port_last'.bus = "Ok" /\ "plug_inserted_or_removed" \in port_last'.event

contract_event_handled ==
    port_last'.bus = "Ok" /\ "new_power_contract_as_consumer" \in port_last'.event

\* The calls of operation op among calls
calls_of(calls, op) == {i \in DOMAIN calls : calls[i].op = op}

\* C28: after process_plug_event completes without a transition error: if the status
\* shows a connection, the device was detached when it was not Detached and then
\* attached, attach being called from Detached only, and it is Idle (attached); if
\* the status shows no connection, the device is Detached. When the plug handler is
\* the only one the step runs, that is the state the step leaves the device in.
C28_PlugEventTransitions ==
    [][(port_step /\ plug_event_handled) =>
          LET before == power_devices[event_pc]
              r == plug_handled
          IN  /\ \A i \in calls_of(r.calls, "attach") : r.calls[i].from = "Detached"
              /\ ~r.error =>
                     /\ port_last'.status.connection_present =>
                            /\ r.kind = "Idle"
                            /\ r.calls =
                                   (IF before # "Detached"
                                    THEN <<DeviceCall("detach", before, TRUE)>> ELSE <<>>)
                                   \o <<DeviceCall("attach", "Detached", TRUE)>>
                     /\ ~port_last'.status.connection_present =>
                            /\ r.kind = "Detached"
                            /\ r.calls = <<DeviceCall("detach", before, TRUE)>>
                     /\ ~contract_event_handled => power_devices'[event_pc] = r.kind]_vars

\* C28 witness: a plug-inserted event found the device connected as a consumer; it was
\* recovered and attached, and is Idle.
C28_Witness ==
    /\ port_last.port \in LocalPorts /\ port_last.bus = "Ok"
    /\ port_last.event = {"plug_inserted_or_removed"}
    /\ port_last.status.connection_present
    /\ port_last.fault = NoFault
    /\ port_last.before = "ConnectedConsumer"
    /\ power_devices[port_last.port] = "Idle"
    /\ event_pc = port_last.port + 1

PlugTypeOK ==
    /\ power_devices \in [LocalPorts -> StateKinds]
    /\ event_pc \in 0 .. N

\* What the contract handler of the step did, from the state the plug handler left
contract_handled ==
    process_new_consumer_contract(
        IF plug_event_handled THEN plug_handled.kind ELSE power_devices[event_pc],
        port_last'.status, port_last'.fault)

\* C29: if a power-device transition (detach or attach) fails while the plug event of
\* a port is handled, that port's processing stops for this pass: the new-consumer-
\* contract handler is not run for it, no transition is tried again, and the device
\* is left as the plug handler left it.
C29_FailedPlugStopsPort ==
    [][(port_step /\ plug_event_handled /\ plug_handled.error) =>
          /\ contract_event_handled => contract_handled.calls = <<>>
          /\ power_devices'[event_pc] = plug_handled.kind]_vars

\* The state the contract handler of the step found the device in
contract_before ==
    IF plug_event_handled THEN plug_handled.kind ELSE power_devices[event_pc]

\* C30: process_new_consumer_contract changes nothing on the device, and calls nothing,
\* when the device is ConnectedProvider; otherwise, for a sink contract, it attaches
\* the device first if it is Detached and then notifies it of the consumer capability
\* exactly once, from Idle or ConnectedConsumer, whichever it is in (when the attach
\* fails it stops there, without a notification); it makes no other call, and none at
\* all without a sink contract.
C30_NewConsumerContract ==
    [][(port_step /\ contract_event_handled) =>
          LET k == contract_before
              r == contract_handled
              from == IF k = "Detached" THEN "Idle" ELSE k
              attached == IF k = "Detached"
                          THEN <<DeviceCall("attach", k, port_last'.fault.op # "attach")>>
                          ELSE <<>>
          IN  /\ power_devices'[event_pc] = r.kind
              /\ k = "ConnectedProvider" => (r.calls = <<>> /\ r.kind = k)
              /\ port_last'.status.contract # "Sink" => (r.calls = <<>> /\ r.kind = k)
              /\ (k # "ConnectedProvider" /\ port_last'.status.contract = "Sink") =>
                     IF port_last'.fault.op = "attach" /\ k = "Detached"
                     THEN r.calls = attached
                     ELSE /\ from \in {"Idle", "ConnectedConsumer"}
                          /\ r.calls = attached \o
                                 <<DeviceCall("notify", from, port_last'.fault.op # "notify")>>
                          /\ Cardinality(calls_of(r.calls, "notify")) = 1
                          /\ r.kind = from]_vars

\* C30 witness: a new sink contract on a port whose device was Detached: the device
\* was attached and notified, and is Idle.
C30_Witness ==
    /\ port_last.port \in LocalPorts /\ port_last.bus = "Ok"
    /\ port_last.event = {"new_power_contract_as_consumer"}
    /\ port_last.status = PlugStatus(TRUE, "Sink")
    /\ port_last.before = "Detached"
    /\ port_last.fault = NoFault
    /\ power_devices[port_last.port] = "Idle"

\* C30 witness of the frame: a new sink contract on a port whose device is connected
\* as provider left the device as it was.
C30_ProviderWitness ==
    /\ port_last.port \in LocalPorts /\ port_last.bus = "Ok"
    /\ port_last.event = {"new_power_contract_as_consumer"}
    /\ port_last.status = PlugStatus(TRUE, "Sink")
    /\ port_last.before = "ConnectedProvider"
    /\ power_devices[port_last.port] = "ConnectedProvider"

----------------------------------------------------------------------------
(* Properties of the wrapper's cached events, batch and PD commands          *)

\* The local port of the wrapper that a global port maps to
local_of(global_port) ==
    CHOOSE l \in LocalPorts : lookup_global_port(l).port = global_port

pd_command_step == pd_last'.op = "pd_command"

get_event_step == pd_command_step /\ pd_last'.command.data = "GetEvent"

port_command_step == pd_command_step /\ pd_last'.command.kind = "Port"

\* C31: GetEvent for a port returns the active events cached for that port
\* and leaves that port's cache empty, so that a second GetEvent for the port
\* with no hardware event in between returns the empty set.
C31_GetEventReturnsAndClears ==
    [][get_event_step =>
        LET l == local_of(pd_last'.command.port)
        IN  /\ Len(pd_last'.responses) = 1
            /\ pd_last'.responses[1].kind = "Event"
            /\ pd_last'.responses[1].event = active_events[l]
            /\ active_events'[l] = PortEventKind_NONE]_vars

\* GetEvent for the port of local port 0 does return and clear that port's
\* cached events
GetEventLocalZero ==
    [][(get_event_step /\ local_of(pd_last'.command.port) = 0) =>
        /\ pd_last'.responses = <<PdResponse("Event", 0, active_events[0])>>
        /\ active_events'[0] = PortEventKind_NONE]_vars

\* C36: a port command for global port g is executed against the local port
\* that maps to g: the status read, or the events returned and cleared, are
\* that port's, and the cached events of the other ports are unchanged.
C36_CommandOnMappedPort ==
    [][port_command_step =>
        LET l == local_of(pd_last'.command.port)
        IN  /\ Len(pd_last'.responses) = 1
            /\ pd_last'.responses[1].local_port = l
            /\ \A other \in LocalPorts \ {l} :
                   active_events'[other] = active_events[other]]_vars

pd_port_step == pd_last'.op = "port"

\* The loop step of process_event met a driver error on its port
pd_port_error == pd_port_step /\ (~pd_last'.cleared.ok \/ ~pd_last'.status_ok)

\* The loop step of process_event cached the port's non-empty raw event bits
pd_port_cached ==
    /\ pd_port_step /\ pd_last'.cached
    /\ pd_last'.cleared.event # PortEventKind_NONE
    /\ active_events'[pd_last'.port] = pd_last'.cleared.event

\* C32: the batch is delivered once per pass, after the loop over the ports,
\* and it marks a global port exactly when the pass cached that port's
\* non-empty raw event bits as its active events. The batch is empty when the
\* loop starts and is delivered as the loop left it, so the equivalence is
\* that of every loop step.
C32_BatchMarksCachedPorts ==
    [][/\ pd_last'.op = "wait_port_event" => pd_pc'.flags = PortEventFlags_none
       /\ pd_port_step =>
              /\ pd_pc'.flags \ {lookup_global_port(pd_last'.port).port}
                     = pd_pc.flags \ {lookup_global_port(pd_last'.port).port}
              /\ (lookup_global_port(pd_last'.port).port \in pd_pc'.flags)
                     <=> pd_port_cached
       /\ pd_last'.op = "notify_ports" =>
              /\ pd_pc.at = "loop" /\ pd_pc.port = N /\ pd_pc'.at = "select"
              /\ pd_last'.events = pd_pc.flags]_vars

\* C33: a driver error on local port i is contained to port i: the cached
\* events and the batch bits of the other ports are as before, the loop goes
\* on to port i + 1, and past the last port the batch is delivered and the
\* wrapper is back in its select, where it serves events and commands.
C33_PortErrorContained ==
    [][/\ pd_port_error =>
              /\ pd_pc' = PdLoop(pd_last'.port + 1, pd_pc'.flags)
              /\ pd_pc'.flags \ {lookup_global_port(pd_last'.port).port}
                     = pd_pc.flags \ {lookup_global_port(pd_last'.port).port}
              /\ active_events' = active_events
       /\ pd_port_step => pd_pc'.at = "loop" /\ pd_pc'.port = pd_pc.port + 1
       /\ (pd_pc.at = "loop" /\ pd_pc.port = N /\ pd_pc' # pd_pc) =>
              pd_pc' = PdSelect]_vars

\* While it is in the loop the wrapper has a next step: the next port, or
\* the delivery of the batch
C33_LoopGoesOn ==
    (pd_pc.at = "loop") => (pd_pc.port <= N /\ ENABLED (EventLoopPort \/ EventLoopNotify))

\* After a status error on local port 0 the same pass cached the events of
\* local port 1
C33_Witness ==
    /\ pd_last.op = "port" /\ pd_last.port = 1 /\ pd_last.cached
    /\ lookup_global_port(0).port \in pd_pc.flags
    /\ active_events[0] = PortEventKind_NONE

\* After a pass in which local port 0 failed, the wrapper answered a command
C33_ServedWitness ==
    /\ pd_last.op = "pd_command" /\ Len(pd_last.responses) = 1
    /\ pd_last.responses[1].kind = "PortStatus"
    /\ port_events # None /\ lookup_global_port(0).port \in port_events[1]
    /\ active_events[0] = PortEventKind_NONE
    /\ active_events[1] # PortEventKind_NONE

\* C35: every command the wrapper takes from its command channel, whether
\* Port, Controller or Lpm, is answered with exactly one response.
C35_OneResponsePerCommand ==
    [][pd_command_step => Len(pd_last'.responses) = 1]_vars

\* A port command is answered with exactly one response
PortCommandAnswered ==
    [][port_command_step => Len(pd_last'.responses) = 1]_vars

\* C37: the event bits reported for a port accumulate in its cached active
\* events until GetEvent reads them: caching the bits of a batch keeps the
\* bits cached before.
C37_EventsAccumulate ==
    [][(pd_port_step /\ pd_last'.cached) =>
        active_events'[pd_last'.port]
            = active_events[pd_last'.port] \cup pd_last'.cleared.event]_vars

notify_step == pd_last'.op \in {"notify_ports", "other_notify_ports"}

\* The flags signalled and not yet consumed
unconsumed(signalled) == IF signalled = None THEN PortEventFlags_none ELSE signalled[1]

\* C38: notify_ports loses no pending-port bit: over flags signalled and not
\* yet consumed it signals their union with the new flags, and a batch with
\* no bit set leaves the signal as it is.
C38_NotifyKeepsPending ==
    [][notify_step =>
        IF pd_last'.events = PortEventFlags_none
        THEN port_events' = port_events
        ELSE port_events' = Some(unconsumed(port_events) \cup pd_last'.events)]_vars

\* The wrapper's batch was signalled over the unconsumed flag of another
\* wrapper, and both are in the signal
C38_Witness ==
    /\ pd_last.op = "notify_ports"
    /\ pd_last.events = {lookup_global_port(0).port}
    /\ port_events = Some({OtherGlobalPort, lookup_global_port(0).port})

----------------------------------------------------------------------------
(* Properties of connector changes that arrive while their port is indicated *)

\* The step before was an event, let through by the notification mask, on the
\* port that was and is indicated to the host
event_on_indicated ==
    /\ last.op = "event" /\ last.had_cursor
    /\ last.port = indicated(ucsi)
    /\ ~is_none(filter_enabled(to_connector_status_change(event_seen),
                               ucsi.notifications_enabled))

\* The step completes the host's acknowledgement of a connector change
ack_ci_step ==
    /\ last'.op = "command" /\ last'.cmd_op = "AckCcCi" /\ last'.ack_ci
    /\ last'.outcome = "AckComplete"

\* C34: a connector change on port p processed after p was indicated and
\* before the host's AckCcCi for p is not lost: after the acknowledgement p
\* is still pending, in the round robin's remaining ports or in the bitmap
\* from which the round robin restarts.
C34_EventBeforeAckKept ==
    [][(event_on_indicated /\ ack_ci_step) => last.port \in unacknowledged(ucsi')]_vars

\* A connector change on another port than the indicated one, processed
\* before the acknowledgement, is still pending after it
EventOnOtherPortKept ==
    [][(/\ last.op = "event" /\ last.had_cursor
        /\ last.port # indicated(ucsi)
        /\ ~is_none(filter_enabled(to_connector_status_change(event_seen),
                                   ucsi.notifications_enabled))
        /\ ack_ci_step) => last.port \in unacknowledged(ucsi')]_vars

----------------------------------------------------------------------------
(* Properties of the time-alarm Timer *)

\* wait_until_wake holds None as its wait_duration
none_delivered == wake_pc.at = "match" /\ wake_pc.wait_duration = NoDuration

\* wait_until_wake waits on timer_signal, where a new timer command reaches it
waits_for_command == wake_pc.at \in {"first_wait", "select"}

\* C39: when the timer signal delivers None, wait_until_wake waits until a
\* new timer command comes in, to act on it: from the point where it holds
\* None it gets to a wait on the timer signal (or has returned).
C39_NoneWaitsForCommand ==
    none_delivered ~> (waits_for_command \/ wake_pc.at = "returned")

\* With None delivered, wait_until_wake is never again at a wait on the signal
NoneNeverWaits ==
    [][(wake_pc.wait_duration = NoDuration /\ wake_pc.at \in {"match", "outer"}) =>
          /\ wake_pc'.wait_duration = NoDuration
          /\ wake_pc'.at \in {"match", "outer"}]_vars

\* A delivered number of seconds makes wait_until_wake wait in its select
SecondsWaitInSelect ==
    (wake_pc.at = "match" /\ wake_pc.wait_duration # NoDuration) ~> (wake_pc.at = "select")

\* The timer is re-armed and active, its time has passed, and wait_until_wake
\* still loops on the None it was given
RearmedNotServed ==
    /\ wake_pc.at \in {"match", "outer"} /\ wake_pc.wait_duration = NoDuration
    /\ alarm_timer.wake_state.kind = "Armed" /\ alarm_timer.is_active
    /\ storage_get_expiration_time(alarm_timer.expiration_time_storage) # None
    /\ datetime > alarm_timer.expiration_time_storage
    /\ timer_signal # None

\* C40: whenever wake_state is Armed or ExpiredWaitingForPolicyDelay the
\* persisted expiration time is Some, and process_expired_timer does not
\* reach its panic.
C40_ArmedHasExpirationTime ==
    /\ alarm_timer.wake_state.kind \in {"Armed", "ExpiredWaitingForPolicyDelay"} =>
           storage_get_expiration_time(alarm_timer.expiration_time_storage) # None
    /\ wake_pc.at # "panicked"

\* process_expired_timer reached its panic
TimerPanicked == wake_pc.at = "panicked"

\* The expiration time that get_expiration_time does not read back as written
NotReadBack ==
    {s \in Seconds :
        storage_get_expiration_time(storage_set_expiration_time(Some(s))) # Some(s)}

\* Only the number of seconds equal to NO_EXPIRATION_TIME is not read back
OnlySentinelNotReadBack == NotReadBack = {NO_EXPIRATION_TIME}

============================================================================
